---- MODULE Spec2Model ----
(***************************************************************************)
(* godebug: a stateless command-line front end to a Delve debug server.    *)
(*                                                                         *)
(* The module models four parts of the program:                            *)
(*   - the error taxonomy and the Response envelope (pure functions),      *)
(*     exercised by SpecResponse;                                          *)
(*   - the Session Launcher (debugger.Launch), exercised by SpecLaunch;    *)
(*   - the timeout-bounded remote call (Client.callWithTimeout),           *)
(*     exercised by SpecCall;                                              *)
(*   - one invocation of the CLI, from argument parsing to process exit,   *)
(*     exercised by Spec.                                                  *)
(*                                                                         *)
(* Text is modelled as a sequence of words; fmt.Sprintf is concatenation   *)
(* of word sequences and substring search is search for a contiguous run   *)
(* of words.                                                               *)
(***************************************************************************)
EXTENDS Integers, Sequences, FiniteSets, TLC

VARIABLES
    built,      \* SpecResponse: <<>> or <<r>>, the Response last built
    builtBy,    \* SpecResponse: the constructor that built it
    exitc       \* SpecResponse: ExitCode() of the Response last built

VARIABLES
    config,     \* Launch: the LaunchConfig passed in
    lpc,        \* Launch: "init", "spawned" (scanners started, select not yet
                \* entered), "waiting" (blocked in select) or "done"
    lresult,    \* Launch: what Launch returned
    proc,       \* the dlv subprocess: "none", "running", "exited" or "killed"
    pid,        \* the subprocess id
    kills,      \* number of cmd.Process.Kill() calls made by Launch
    lines,      \* lines[s]: the lines the subprocess wrote to stream s so far
    closed,     \* closed[s]: the write end of stream s is closed
    scState,    \* scState[s]: scanner task of stream s: "idle", "scanning", "done"
    scPos,      \* scPos[s]: number of lines the scanner of s has read
    addrChan,   \* buffered channel of capacity 1
    errChan,    \* buffered channel of capacity 1
    events      \* Launch: history of publications, timer expiry and return

VARIABLES
    cTimeout,   \* Client.timeout, in seconds
    cpc,        \* the caller of a resume-class operation: "connected",
                \* "spawned" (task started, select not yet entered),
                \* "waiting" (blocked in select) or "returned"
    op,         \* the resume-class operation called
    ctxDone,    \* the context's Done channel is closed
    task,       \* the task running client.Call: "none", "calling",
                \* "sending" or "exited"
    answer,     \* what client.Call returned to the task
    doneChan,   \* buffered channel of capacity 1
    cresult,    \* what the operation returned to its caller
    cevents     \* history of deadline expiry, answer and return

VARIABLES
    inv,        \* the invocation: entry point, handler generation, command,
                \* positional arguments and the --addr, --output, --timeout flags
    ipc,        \* position of the invocation: before cobra's Execute, at a
                \* step of the handler, blocked in a remote call, or ended
    conn,       \* the connection to the Delve server: "none", "open", "closed"
    deferred,   \* a deferred c.Close() is registered
    dials,      \* number of jsonrpc.Dial calls made
    calls,      \* the remote methods called, in order
    printed,    \* the Responses written to standard output, in order
    exitState,  \* how the invocation ended and with which status
    gstate,     \* the DebuggerState last returned to the handler
    connTimeout, \* Client.timeout of the invocation's client, in seconds
    frames,     \* the stack frames last returned to the handler
    answers,    \* what the server answered to the remote calls, in order
    scopes      \* the frame argument of each scoped remote call, in order

respVars == <<built, builtBy, exitc>>

cliVars ==
    <<inv, ipc, conn, deferred, dials, calls, printed, exitState, gstate,
      connTimeout, frames, answers, scopes>>

callVars ==
    <<cTimeout, cpc, op, ctxDone, task, answer, doneChan, cresult, cevents>>

launchVars ==
    <<config, lpc, lresult, proc, pid, kills, lines, closed, scState, scPos,
      addrChan, errChan, events>>

vars == <<respVars, launchVars, callVars, cliVars>>

(***************************************************************************)
(* Each specification exercises one part of the program and leaves the     *)
(* variables of the other parts in their idle state.                       *)
(***************************************************************************)
IdleResponse ==
    /\ built = <<>>
    /\ builtBy = "none"
    /\ exitc = 0

IdleLaunch ==
    /\ config = [Mode |-> "debug", Target |-> "", Args |-> <<>>, Timeout |-> 30]
    /\ lpc = "idle"
    /\ lresult = [kind |-> "none"]
    /\ proc = "none"
    /\ pid = 0
    /\ kills = 0
    /\ lines = [s \in {"stdout", "stderr"} |-> <<>>]
    /\ closed = [s \in {"stdout", "stderr"} |-> FALSE]
    /\ scState = [s \in {"stdout", "stderr"} |-> "idle"]
    /\ scPos = [s \in {"stdout", "stderr"} |-> 0]
    /\ addrChan = <<>>
    /\ errChan = <<>>
    /\ events = <<>>

IdleCLI ==
    /\ inv = [entry |-> "none"]
    /\ ipc = [at |-> "idle", i |-> 0]
    /\ conn = "none"
    /\ deferred = FALSE
    /\ dials = 0
    /\ calls = <<>>
    /\ printed = <<>>
    /\ exitState = [how |-> "none", code |-> 0]
    /\ gstate = <<>>
    /\ connTimeout = 0
    /\ frames = <<>>
    /\ answers = <<>>
    /\ scopes = <<>>

IdleCall ==
    /\ cTimeout = 0
    /\ cpc = "idle"
    /\ op = "none"
    /\ ctxDone = FALSE
    /\ task = "none"
    /\ answer = <<>>
    /\ doneChan = <<>>
    /\ cresult = [kind |-> "none"]
    /\ cevents = <<>>

(***************************************************************************)
(* internal/output/exitcodes.go                                            *)
(***************************************************************************)
ExitSuccess == 0
ExitGenericError == 1
ExitUsageError == 2
ExitConnectionError == 3
ExitNotFound == 4
ExitTimeout == 124
ExitProcessError == 125

(***************************************************************************)
(* internal/output/errors.go: error codes                                  *)
(***************************************************************************)
ErrCodeConnectionFailed == "CONNECTION_FAILED"
ErrCodeConnectionRefused == "CONNECTION_REFUSED"
ErrCodeTimeout == "TIMEOUT"
ErrCodeInvalidArgument == "INVALID_ARGUMENT"
ErrCodeNotFound == "NOT_FOUND"
ErrCodeProcessExited == "PROCESS_EXITED"
ErrCodeEvalFailed == "EVAL_FAILED"
ErrCodeInternalError == "INTERNAL_ERROR"

ErrCodes ==
    { ErrCodeConnectionFailed, ErrCodeConnectionRefused, ErrCodeTimeout,
      ErrCodeInvalidArgument, ErrCodeNotFound, ErrCodeProcessExited,
      ErrCodeEvalFailed, ErrCodeInternalError }

(***************************************************************************)
(* Go values.  A pointer is <<>> (nil) or <<v>>.  An error value is the    *)
(* nil interface, an *ErrorInfo (possibly a nil pointer) or a plain error  *)
(* carrying only its text.                                                 *)
(***************************************************************************)
Nil == <<>>
NoDetails == <<>>

NilError == [kind |-> "nil"]
InfoError(p) == [kind |-> "info", ptr |-> p]
RawError(text) == [kind |-> "raw", text |-> text]

\* strings.ToLower restricted to the capitalised words the model uses
LowerMap ==
    [w \in { "Connection", "Refused", "Timeout", "Not", "Found", "Process",
             "Exited", "Error", "TIMEOUT", "Timed", "Out", "Has" } |->
        CASE w = "Connection" -> "connection"
          [] w = "Refused" -> "refused"
          [] w = "Timeout" -> "timeout"
          [] w = "TIMEOUT" -> "timeout"
          [] w = "Not" -> "not"
          [] w = "Found" -> "found"
          [] w = "Process" -> "process"
          [] w = "Exited" -> "exited"
          [] w = "Error" -> "error"
          [] w = "Timed" -> "timed"
          [] w = "Out" -> "out"
          [] w = "Has" -> "has"]

toLower(s) ==
    [i \in 1..Len(s) |-> IF s[i] \in DOMAIN LowerMap THEN LowerMap[s[i]] ELSE s[i]]

containsLower(s, substr) ==
    \E i \in 0..(Len(s) - Len(substr)) :
        SubSeq(s, i + 1, i + Len(substr)) = substr

contains(s, substr) ==
    Len(s) >= Len(substr) /\ containsLower(toLower(s), toLower(substr))

\* strings.Contains: case-sensitive
StringsContains(s, substr) ==
    \E i \in 0..(Len(s) - Len(substr)) :
        SubSeq(s, i + 1, i + Len(substr)) = substr

(***************************************************************************)
(* internal/output/errors.go: constructors                                 *)
(***************************************************************************)
NewErrorInfo(code, message) ==
    [Code |-> code, Message |-> message, Details |-> NoDetails]

ErrorText(e) ==
    CASE e.kind = "raw" -> e.text
      [] e.kind = "info" /\ e.ptr # Nil -> e.ptr[1].Message
      [] OTHER -> <<>>

ConnectionFailed(addr, err) ==
    [Code |-> ErrCodeConnectionFailed,
     Message |-> <<"cannot", "connect", "to", "Delve", "server", "at", addr>>
                    \o ErrorText(err),
     Details |-> <<"addr", addr>>]

ConnectionRefused(addr) ==
    [Code |-> ErrCodeConnectionRefused,
     Message |-> <<"connection", "refused", "by", "Delve", "server", "at", addr>>,
     Details |-> <<"addr", addr>>]

Timeout(operation, duration) ==
    [Code |-> ErrCodeTimeout,
     Message |-> <<"operation", "timed", "out", "after", ToString(duration) \o "s">>,
     Details |-> <<"operation", operation, "timeout_seconds", ToString(duration)>>]

InvalidArgument(message) ==
    [Code |-> ErrCodeInvalidArgument, Message |-> message, Details |-> NoDetails]

InvalidArgumentWithDetails(message, details) ==
    [Code |-> ErrCodeInvalidArgument, Message |-> message, Details |-> details]

NotFound(resourceType, identifier) ==
    [Code |-> ErrCodeNotFound,
     Message |-> <<resourceType, "not", "found", identifier>>,
     Details |-> <<"resource_type", resourceType, "identifier", identifier>>]

ProcessExited(exitStatus) ==
    [Code |-> ErrCodeProcessExited,
     Message |-> <<"target", "process", "exited", "with", "status", ToString(exitStatus)>>,
     Details |-> <<"exit_status", ToString(exitStatus)>>]

EvalFailed(expr, err) ==
    [Code |-> ErrCodeEvalFailed,
     Message |-> <<"failed", "to", "evaluate", "expression", expr>> \o ErrorText(err),
     Details |-> <<"expression", expr>>]

InternalError(message) ==
    [Code |-> ErrCodeInternalError, Message |-> message, Details |-> NoDetails]

\* FromError returns a *ErrorInfo: Nil or <<info>>
FromError_noNotFoundBranch(err) ==
    IF err.kind = "nil" THEN Nil
    ELSE IF err.kind = "info" THEN err.ptr
    ELSE LET msg == err.text IN
        IF contains(msg, <<"connection", "refused">>)
            THEN <<NewErrorInfo(ErrCodeConnectionRefused, msg)>>
        ELSE IF contains(msg, <<"timeout">>) \/ contains(msg, <<"timed", "out">>)
            THEN <<NewErrorInfo(ErrCodeTimeout, msg)>>
        ELSE IF contains(msg, <<"failed", "to", "connect">>)
                    \/ contains(msg, <<"connection", "failed">>)
            THEN <<NewErrorInfo(ErrCodeConnectionFailed, msg)>>
        ELSE IF contains(msg, <<"process", "exited">>) \/ contains(msg, <<"has", "exited">>)
            THEN <<NewErrorInfo(ErrCodeProcessExited, msg)>>
        ELSE <<NewErrorInfo(ErrCodeInternalError, msg)>>

\* a FromError without the `err.(*ErrorInfo)` test: an Error Info is
\* classified again by the text of its message
FromError_reclassifiesInfo(err) ==
    IF err.kind = "nil" THEN Nil
    ELSE IF err.kind = "info" /\ err.ptr = Nil THEN Nil
    ELSE LET msg == IF err.kind = "info" THEN err.ptr[1].Message ELSE err.text IN
        IF contains(msg, <<"connection", "refused">>)
            THEN <<NewErrorInfo(ErrCodeConnectionRefused, msg)>>
        ELSE IF contains(msg, <<"timeout">>) \/ contains(msg, <<"timed", "out">>)
            THEN <<NewErrorInfo(ErrCodeTimeout, msg)>>
        ELSE IF contains(msg, <<"not", "found">>) \/ contains(msg, <<"does", "not", "exist">>)
            THEN <<NewErrorInfo(ErrCodeNotFound, msg)>>
        ELSE IF contains(msg, <<"failed", "to", "connect">>)
                    \/ contains(msg, <<"connection", "failed">>)
            THEN <<NewErrorInfo(ErrCodeConnectionFailed, msg)>>
        ELSE IF contains(msg, <<"process", "exited">>) \/ contains(msg, <<"has", "exited">>)
            THEN <<NewErrorInfo(ErrCodeProcessExited, msg)>>
        ELSE <<NewErrorInfo(ErrCodeInternalError, msg)>>

FromError(err) ==
    IF err.kind = "nil" THEN Nil
    ELSE IF err.kind = "info" THEN err.ptr
    ELSE LET msg == err.text IN
        IF contains(msg, <<"connection", "refused">>)
            THEN <<NewErrorInfo(ErrCodeConnectionRefused, msg)>>
        ELSE IF contains(msg, <<"timeout">>) \/ contains(msg, <<"timed", "out">>)
            THEN <<NewErrorInfo(ErrCodeTimeout, msg)>>
        ELSE IF contains(msg, <<"not", "found">>) \/ contains(msg, <<"does", "not", "exist">>)
            THEN <<NewErrorInfo(ErrCodeNotFound, msg)>>
        ELSE IF contains(msg, <<"failed", "to", "connect">>)
                    \/ contains(msg, <<"connection", "failed">>)
            THEN <<NewErrorInfo(ErrCodeConnectionFailed, msg)>>
        ELSE IF contains(msg, <<"process", "exited">>) \/ contains(msg, <<"has", "exited">>)
            THEN <<NewErrorInfo(ErrCodeProcessExited, msg)>>
        ELSE <<NewErrorInfo(ErrCodeInternalError, msg)>>

(***************************************************************************)
(* internal/output/response.go                                             *)
(***************************************************************************)
Success(command, data, message) ==
    [Success |-> TRUE, Command |-> command, Data |-> data, Message |-> message,
     Error |-> Nil]

Error(command, err) ==
    [Success |-> FALSE, Command |-> command, Data |-> Nil, Message |-> <<>>,
     Error |-> FromError(err)]

ErrorWithInfo(command, errInfo) ==
    [Success |-> FALSE, Command |-> command, Data |-> Nil, Message |-> <<>>,
     Error |-> errInfo]

ErrorMsg(command, msg) ==
    [Success |-> FALSE, Command |-> command, Data |-> Nil, Message |-> <<>>,
     Error |-> <<InternalError(msg)>>]

\* ExitCode with the NotFound and ProcessExited cases dropped from the switch
ExitCode_noNotFound(r) ==
    IF r.Success THEN ExitSuccess
    ELSE IF r.Error = Nil THEN ExitGenericError
    ELSE CASE r.Error[1].Code = ErrCodeTimeout -> ExitTimeout
           [] r.Error[1].Code \in {ErrCodeConnectionFailed, ErrCodeConnectionRefused} ->
                ExitConnectionError
           [] r.Error[1].Code = ErrCodeInvalidArgument -> ExitUsageError
           [] OTHER -> ExitGenericError

\* ExitCode also looking at the details of the Error Info
ExitCode_readsDetails(r) ==
    IF r.Success THEN ExitSuccess
    ELSE IF r.Error = Nil THEN ExitGenericError
    ELSE IF r.Error[1].Details # NoDetails THEN ExitUsageError
    ELSE CASE r.Error[1].Code = ErrCodeTimeout -> ExitTimeout
           [] r.Error[1].Code \in {ErrCodeConnectionFailed, ErrCodeConnectionRefused} ->
                ExitConnectionError
           [] r.Error[1].Code = ErrCodeNotFound -> ExitNotFound
           [] r.Error[1].Code = ErrCodeInvalidArgument -> ExitUsageError
           [] r.Error[1].Code = ErrCodeProcessExited -> ExitProcessError
           [] OTHER -> ExitGenericError

ExitCode(r) ==
    IF r.Success THEN ExitSuccess
    ELSE IF r.Error = Nil THEN ExitGenericError
    ELSE CASE r.Error[1].Code = ErrCodeTimeout -> ExitTimeout
           [] r.Error[1].Code \in {ErrCodeConnectionFailed, ErrCodeConnectionRefused} ->
                ExitConnectionError
           [] r.Error[1].Code = ErrCodeNotFound -> ExitNotFound
           [] r.Error[1].Code = ErrCodeInvalidArgument -> ExitUsageError
           [] r.Error[1].Code = ErrCodeProcessExited -> ExitProcessError
           [] OTHER -> ExitGenericError

(***************************************************************************)
(* internal/debugger/launcher.go                                           *)
(***************************************************************************)
Streams == {"stdout", "stderr"}

ModeDebug == "debug"
ModeTest == "test"
ModeExec == "exec"

\* the words of the pattern `API server listening at: (.+)`
AddrMarker == <<"API", "server", "listening", "at:">>

\* the words of the model's vocabulary that contain "error" or "Error"
ErrorWords == {"error", "Error", "error:", "Error:", "errors", "error.local:1"}

\* FindStringSubmatch taking matches[0], the whole match, for the address
FindStringSubmatch_wholeMatch(line) ==
    LET hits == { i \in 1..Len(line) :
                    /\ i + Len(AddrMarker) <= Len(line)
                    /\ SubSeq(line, i, i + Len(AddrMarker) - 1) = AddrMarker }
    IN  IF hits = {} THEN <<>>
        ELSE LET i == CHOOSE h \in hits : \A k \in hits : h <= k
             IN  <<SubSeq(line, i, Len(line))>>

\* addrRegex.FindStringSubmatch(line): <<>> when there is no match, else
\* <<matches[1]>>, the rest of the line after the leftmost marker; (.+) needs
\* at least one character after the marker
FindStringSubmatch(line) ==
    LET hits == { i \in 1..Len(line) :
                    /\ i + Len(AddrMarker) <= Len(line)
                    /\ SubSeq(line, i, i + Len(AddrMarker) - 1) = AddrMarker }
    IN  IF hits = {} THEN <<>>
        ELSE LET i == CHOOSE h \in hits : \A k \in hits : h <= k
             IN  <<SubSeq(line, i + Len(AddrMarker), Len(line))>>

\* strings.Contains(line, "error") || strings.Contains(line, "Error")
IsErrorLine(line) == \E i \in 1..Len(line) : line[i] \in ErrorWords

\* a scanner that looks for the error indicator before the address pattern
LineVerdict_errorFirst(line) ==
    IF IsErrorLine(line) THEN "error"
    ELSE IF FindStringSubmatch(line) # <<>> THEN "addr"
    ELSE "next"

\* what scanPipe does with one line: publish an address, publish an error,
\* or go on to the next line
LineVerdict(line) ==
    IF FindStringSubmatch(line) # <<>> THEN "addr"
    ELSE IF IsErrorLine(line) THEN "error"
    ELSE "next"

\* an argument list that always ends the flags with the "--" separator
LaunchArgs_alwaysSeparator(cfg) ==
    <<cfg.Mode>>
    \o (IF cfg.Target # "" THEN <<cfg.Target>> ELSE <<>>)
    \o <<"--headless", "--api-version=2", "--accept-multiclient", "--listen=127.0.0.1:0">>
    \o <<"--">> \o cfg.Args

\* the argument list handed to exec.Command
LaunchArgs(cfg) ==
    <<cfg.Mode>>
    \o (IF cfg.Target # "" THEN <<cfg.Target>> ELSE <<>>)
    \o <<"--headless", "--api-version=2", "--accept-multiclient", "--listen=127.0.0.1:0">>
    \o (IF Len(cfg.Args) > 0 THEN <<"--">> \o cfg.Args ELSE <<>>)

\* the discovery timer: time.After(30 * time.Second)
LaunchTimerSeconds == 30

\* the duration Launch gives to time.After, in seconds: the literal, whatever
\* the configuration passed by `start` carries
LaunchTimer(cfg) == LaunchTimerSeconds

LaunchOk(addr, cfg, p) ==
    [kind |-> "ok", Addr |-> addr, PID |-> p, Target |-> cfg.Target, Mode |-> cfg.Mode]

LaunchErr(text) == [kind |-> "err", err |-> RawError(text)]

LookPathError ==
    <<"dlv", "not", "found", "in", "PATH:", "exec:", "dlv:", "executable", "file",
      "not", "found", "in", "$PATH">>

StartError == <<"failed", "to", "start", "dlv:", "fork/exec", "permission", "denied">>

StdoutPipeError == <<"failed", "to", "create", "stdout", "pipe:", "too", "many", "open", "files">>

StderrPipeError == <<"failed", "to", "create", "stderr", "pipe:", "too", "many", "open", "files">>

\* the error of the errChan arm without the line that caused it
DlvErrorText_noEcho(line) == <<"dlv", "error:">>

\* fmt.Errorf("dlv error: %s", line)
DlvErrorText(line) == <<"dlv", "error:">> \o line

LaunchTimeoutText == <<"timeout", "waiting", "for", "dlv", "to", "start">>

(***************************************************************************)
(* SpecLaunch: one execution of Launch against a subprocess that writes    *)
(* up to MaxLines lines to its two streams                                 *)
(***************************************************************************)
MaxLines == 3

SampleLines ==
    { <<"API", "server", "listening", "at:", "127.0.0.1:9999">>,
      <<"API", "server", "listening", "at:", "error.local:1">>,
      <<"could", "not", "launch", "process:", "build", "error">>,
      <<"Type", "help", "for", "help">> }

SampleConfigs ==
    { [Mode |-> ModeDebug, Target |-> "./cmd/app", Args |-> <<>>, Timeout |-> 30],
      [Mode |-> ModeTest, Target |-> "", Args |-> <<"-port", "8080">>, Timeout |-> 1] }

SamplePids == {4242}

InitLaunch ==
    /\ IdleResponse
    /\ IdleCall
    /\ IdleCLI
    /\ config \in SampleConfigs
    /\ lpc = "init"
    /\ lresult = [kind |-> "none"]
    /\ proc = "none"
    /\ pid = 0
    /\ kills = 0
    /\ lines = [s \in Streams |-> <<>>]
    /\ closed = [s \in Streams |-> FALSE]
    /\ scState = [s \in Streams |-> "idle"]
    /\ scPos = [s \in Streams |-> 0]
    /\ addrChan = <<>>
    /\ errChan = <<>>
    /\ events = <<>>

\* Launch up to the two `go scanPipe(...)` statements: LookPath, the
\* argument list, the pipes, cmd.Start
LaunchSpawn ==
    /\ lpc = "init"
    /\ \E outcome \in {"ok", "nodlv", "stdoutpipe", "stderrpipe", "startfail"} :
        IF outcome = "ok"
        THEN /\ \E p \in SamplePids : pid' = p
             /\ proc' = "running"
             /\ scState' = [s \in Streams |-> "scanning"]
             /\ lpc' = "spawned"
             /\ events' = Append(events, <<"exec", LaunchArgs(config)>>)
             /\ UNCHANGED lresult
        ELSE /\ lresult' = LaunchErr(CASE outcome = "nodlv" -> LookPathError
                                       [] outcome = "stdoutpipe" -> StdoutPipeError
                                       [] outcome = "stderrpipe" -> StderrPipeError
                                       [] outcome = "startfail" -> StartError)
             /\ lpc' = "done"
             /\ events' = Append(events, <<"return">>)
             /\ UNCHANGED <<pid, proc, scState>>
    /\ UNCHANGED <<config, kills, lines, closed, scPos, addrChan, errChan>>
    /\ UNCHANGED <<respVars, callVars, cliVars>>

\* the subprocess writes one more line to one of its streams
Emit(s) ==
    /\ proc = "running"
    /\ ~closed[s]
    /\ Len(lines["stdout"]) + Len(lines["stderr"]) < MaxLines
    /\ \E l \in SampleLines : lines' = [lines EXCEPT ![s] = Append(@, l)]
    /\ UNCHANGED <<config, lpc, lresult, proc, pid, kills, closed, scState, scPos,
                   addrChan, errChan, events>>
    /\ UNCHANGED <<respVars, callVars, cliVars>>

\* the subprocess closes a stream
CloseStream(s) ==
    /\ proc = "running"
    /\ ~closed[s]
    /\ closed' = [closed EXCEPT ![s] = TRUE]
    /\ UNCHANGED <<config, lpc, lresult, proc, pid, kills, lines, scState, scPos,
                   addrChan, errChan, events>>
    /\ UNCHANGED <<respVars, callVars, cliVars>>

\* the subprocess ends by itself; its streams close
ProcExit ==
    /\ proc = "running"
    /\ proc' = "exited"
    /\ closed' = [s \in Streams |-> TRUE]
    /\ UNCHANGED <<config, lpc, lresult, pid, kills, lines, scState, scPos,
                   addrChan, errChan, events>>
    /\ UNCHANGED <<respVars, callVars, cliVars>>

\* cmd.Process.Kill(): ends a running subprocess, fails on one that ended
KillProc(p) == IF p = "running" THEN "killed" ELSE p

\* the body of the `case addr := <-addrChan` arm
ReturnAddr(addr) == LaunchOk(addr, config, pid)

\* the body of the `case err := <-errChan` arm, after the Kill
ReturnErr(text) == LaunchErr(text)

\* scanPipe reads the next line of stream s.  A publication is a
\* non-blocking send; when Launch is blocked in the select, the send hands
\* the value to it and Launch returns through that arm.
ScanLine(s) ==
    /\ scState[s] = "scanning"
    /\ scPos[s] < Len(lines[s])
    /\ LET line == lines[s][scPos[s] + 1]
           verdict == LineVerdict(line)
       IN
       /\ scPos' = [scPos EXCEPT ![s] = @ + 1]
       /\ scState' = [scState EXCEPT ![s] = IF verdict = "next" THEN "scanning" ELSE "done"]
       /\ CASE verdict = "next" ->
                 UNCHANGED <<lpc, lresult, proc, closed, kills, addrChan, errChan, events>>
            [] verdict = "addr" ->
                 LET a == FindStringSubmatch(line)[1] IN
                 IF lpc = "waiting"
                 THEN /\ lresult' = ReturnAddr(a)
                      /\ lpc' = "done"
                      /\ events' = events \o << <<"pub", "addr", s>>, <<"return">> >>
                      /\ UNCHANGED <<proc, closed, kills, addrChan, errChan>>
                 ELSE IF Len(addrChan) < 1
                 THEN /\ addrChan' = Append(addrChan, a)
                      /\ events' = Append(events, <<"pub", "addr", s>>)
                      /\ UNCHANGED <<lpc, lresult, proc, closed, kills, errChan>>
                 ELSE /\ events' = Append(events, <<"drop", "addr", s>>)
                      /\ UNCHANGED <<lpc, lresult, proc, closed, kills, addrChan, errChan>>
            [] verdict = "error" ->
                 LET e == DlvErrorText(line) IN
                 IF lpc = "waiting"
                 THEN /\ kills' = kills + 1
                      /\ proc' = KillProc(proc)
                      /\ closed' = [t \in Streams |-> TRUE]
                      /\ lresult' = ReturnErr(e)
                      /\ lpc' = "done"
                      /\ events' = events \o << <<"pub", "err", s>>, <<"return">> >>
                      /\ UNCHANGED <<addrChan, errChan>>
                 ELSE IF Len(errChan) < 1
                 THEN /\ errChan' = Append(errChan, e)
                      /\ events' = Append(events, <<"pub", "err", s>>)
                      /\ UNCHANGED <<lpc, lresult, proc, closed, kills, addrChan>>
                 ELSE /\ events' = Append(events, <<"drop", "err", s>>)
                      /\ UNCHANGED <<lpc, lresult, proc, closed, kills, addrChan, errChan>>
    /\ UNCHANGED <<config, pid, lines>>
    /\ UNCHANGED <<respVars, callVars, cliVars>>

\* a scanner that treats end of file as a startup failure
ScanEOF_failsLaunch(s) ==
    /\ scState[s] = "scanning"
    /\ scPos[s] = Len(lines[s])
    /\ closed[s]
    /\ scState' = [scState EXCEPT ![s] = "done"]
    /\ IF lpc = "waiting"
       THEN /\ kills' = kills + 1
            /\ proc' = KillProc(proc)
            /\ lresult' = ReturnErr(<<"dlv", "error:", "EOF">>)
            /\ lpc' = "done"
            /\ events' = events \o << <<"pub", "err", s>>, <<"return">> >>
       ELSE UNCHANGED <<lpc, lresult, proc, kills, events>>
    /\ UNCHANGED <<config, pid, lines, closed, scPos, addrChan, errChan>>
    /\ UNCHANGED <<respVars, callVars, cliVars>>

\* scanner.Scan() returns false at end of file: scanPipe returns, publishing
\* nothing
ScanEOF(s) ==
    /\ scState[s] = "scanning"
    /\ scPos[s] = Len(lines[s])
    /\ closed[s]
    /\ scState' = [scState EXCEPT ![s] = "done"]
    /\ UNCHANGED <<config, lpc, lresult, proc, pid, kills, lines, closed, scPos,
                   addrChan, errChan, events>>
    /\ UNCHANGED <<respVars, callVars, cliVars>>

\* a select whose address arm also kills the subprocess
LaunchSelect_killsOnSuccess ==
    /\ lpc = "spawned"
    /\ \/ /\ addrChan # <<>>
          /\ lresult' = ReturnAddr(addrChan[1])
          /\ addrChan' = <<>>
          /\ lpc' = "done"
          /\ events' = Append(events, <<"return">>)
          /\ kills' = kills + 1
          /\ proc' = KillProc(proc)
          /\ UNCHANGED <<closed, errChan>>
       \/ /\ errChan # <<>>
          /\ kills' = kills + 1
          /\ proc' = KillProc(proc)
          /\ closed' = [t \in Streams |-> TRUE]
          /\ lresult' = ReturnErr(errChan[1])
          /\ errChan' = <<>>
          /\ lpc' = "done"
          /\ events' = Append(events, <<"return">>)
          /\ UNCHANGED <<addrChan>>
       \/ /\ addrChan = <<>>
          /\ errChan = <<>>
          /\ lpc' = "waiting"
          /\ events' = Append(events, <<"arm", LaunchTimer(config)>>)
          /\ UNCHANGED <<lresult, proc, closed, kills, addrChan, errChan>>
    /\ UNCHANGED <<config, pid, lines, scState, scPos>>
    /\ UNCHANGED <<respVars, callVars, cliVars>>

\* Launch reaches the select: time.After is evaluated, then the channels
\* are polled.  With both channels ready the arm is chosen at random; with
\* none ready Launch blocks.
LaunchSelect ==
    /\ lpc = "spawned"
    /\ \/ /\ addrChan # <<>>
          /\ lresult' = ReturnAddr(addrChan[1])
          /\ addrChan' = <<>>
          /\ lpc' = "done"
          /\ events' = Append(events, <<"return">>)
          /\ UNCHANGED <<proc, closed, kills, errChan>>
       \/ /\ errChan # <<>>
          /\ kills' = kills + 1
          /\ proc' = KillProc(proc)
          /\ closed' = [t \in Streams |-> TRUE]
          /\ lresult' = ReturnErr(errChan[1])
          /\ errChan' = <<>>
          /\ lpc' = "done"
          /\ events' = Append(events, <<"return">>)
          /\ UNCHANGED <<addrChan>>
       \/ /\ addrChan = <<>>
          /\ errChan = <<>>
          /\ lpc' = "waiting"
          /\ events' = Append(events, <<"arm", LaunchTimer(config)>>)
          /\ UNCHANGED <<lresult, proc, closed, kills, addrChan, errChan>>
    /\ UNCHANGED <<config, pid, lines, scState, scPos>>
    /\ UNCHANGED <<respVars, callVars, cliVars>>

\* the timer fires while Launch is blocked in the select
\* the timer arm returning the Timeout failure without the Kill
TimerFire_noKill ==
    /\ lpc = "waiting"
    /\ lresult' = LaunchErr(LaunchTimeoutText)
    /\ lpc' = "done"
    /\ events' = events \o << <<"timer">>, <<"return">> >>
    /\ UNCHANGED <<config, pid, lines, scState, scPos, addrChan, errChan>>
    /\ UNCHANGED <<proc, kills, closed>>
    /\ UNCHANGED <<respVars, callVars, cliVars>>

\* a timer arm that could still run once Launch has returned
TimerFire_lateExpiry ==
    /\ lpc \in {"waiting", "done"}
    /\ proc # "none"
    /\ kills' = kills + 1
    /\ proc' = KillProc(proc)
    /\ closed' = [t \in Streams |-> TRUE]
    /\ lresult' = LaunchErr(LaunchTimeoutText)
    /\ lpc' = "done"
    /\ events' = events \o << <<"timer">>, <<"return">> >>
    /\ UNCHANGED <<config, pid, lines, scState, scPos, addrChan, errChan>>
    /\ UNCHANGED <<respVars, callVars, cliVars>>

\* the `case <-time.After(30 * time.Second)` arm: Kill, then the Timeout failure
TimerFire ==
    /\ lpc = "waiting"
    /\ kills' = kills + 1
    /\ proc' = KillProc(proc)
    /\ closed' = [t \in Streams |-> TRUE]
    /\ lresult' = LaunchErr(LaunchTimeoutText)
    /\ lpc' = "done"
    /\ events' = events \o << <<"timer">>, <<"return">> >>
    /\ UNCHANGED <<config, pid, lines, scState, scPos, addrChan, errChan>>
    /\ UNCHANGED <<respVars, callVars, cliVars>>

\* The Run function of `start` after Launch has returned: an error becomes
\* Error("start", err), a result becomes Success("start", data, ...), and
\* either is handed to PrintAndExit.
StartData(result) ==
    [addr |-> result.Addr, pid |-> result.PID, target |-> result.Target,
     mode |-> result.Mode]

StartResponse(result) ==
    IF result.kind = "err"
    THEN Error("start", result.err)
    ELSE Success("start", StartData(result), <<"Debug", "server", "started">>)

StartHandler ==
    /\ lpc = "done"
    /\ built = <<>>
    /\ built' = <<StartResponse(lresult)>>
    /\ builtBy' = "start"
    /\ exitc' = ExitCode(StartResponse(lresult))
    /\ UNCHANGED <<launchVars, callVars, cliVars>>

NextLaunch ==
    \/ LaunchSpawn
    \/ StartHandler
    \/ \E s \in Streams : Emit(s)
    \/ \E s \in Streams : CloseStream(s)
    \/ ProcExit
    \/ \E s \in Streams : ScanLine(s)
    \/ \E s \in Streams : ScanEOF(s)
    \/ LaunchSelect
    \/ TimerFire

SpecLaunch == InitLaunch /\ [][NextLaunch]_vars

\* the Go scheduler runs every runnable task, and a started timer fires
SpecLaunchFair ==
    /\ InitLaunch
    /\ [][NextLaunch]_vars
    /\ WF_vars(LaunchSpawn)
    /\ WF_vars(LaunchSelect)
    /\ WF_vars(TimerFire)
    /\ \A s \in Streams : WF_vars(ScanLine(s)) /\ WF_vars(ScanEOF(s))

(***************************************************************************)
(* Properties of Launch                                                    *)
(***************************************************************************)
Returned == lpc = "done" /\ proc # "none"

ReturnIdx == CHOOSE i \in 1..Len(events) : events[i] = <<"return">>

\* the streams whose scanner published a value of kind k before Launch returned
Publishers(k) ==
    { s \in Streams :
        \E i \in 1..(ReturnIdx - 1) : events[i] = <<"pub", k, s>> }

\* the line at which the scanner of stream s stopped
StopLine(s) == lines[s][scPos[s]]

\* C5: when a line "API server listening at: <addr>" is read from either
\* stream and no error-indicator line has been published, Launch returns
\* success with endpoint exactly <addr>, the subprocess id and the target and
\* mode of the configuration; the timer never fires and the subprocess is
\* left running or ended by itself.
C5_AddressDiscovered ==
    (Returned /\ Publishers("addr") # {} /\ Publishers("err") = {}) =>
        /\ \E s \in Publishers("addr") :
              /\ SubSeq(StopLine(s), 1, 4) = <<"API", "server", "listening", "at:">>
              /\ lresult.kind = "ok"
              /\ lresult.Addr = SubSeq(StopLine(s), 5, Len(StopLine(s)))
        /\ lresult.kind = "ok"
        /\ lresult.PID = pid
        /\ lresult.Target = config.Target
        /\ lresult.Mode = config.Mode
        /\ \A i \in 1..Len(events) : events[i] # <<"timer">>
        /\ kills = 0

\* the address line arrived on standard error and Launch returned it
C5_Witness ==
    /\ Returned
    /\ Publishers("addr") = {"stderr"}
    /\ Publishers("err") = {}
    /\ lines["stderr"] = << <<"API", "server", "listening", "at:", "127.0.0.1:9999">> >>
    /\ lresult.kind = "ok"
    /\ lresult.Addr = <<"127.0.0.1:9999">>

\* C6: Launch always returns; when no scanner has published an address or
\* an error by then (the streams stayed silent or closed), it returns the
\* Timeout failure, after the timer fired and the subprocess was killed.
C6_LaunchAlwaysReturns ==
    /\ <>(lpc = "done")
    /\ []((Returned /\ Publishers("addr") = {} /\ Publishers("err") = {}) =>
            /\ lresult = [kind |-> "err",
                          err |-> [kind |-> "raw",
                                   text |-> <<"timeout", "waiting", "for", "dlv",
                                              "to", "start">>]]
            /\ \E i \in 1..(ReturnIdx - 1) : events[i] = <<"timer">>
            /\ kills = 1
            /\ proc # "running")

\* both streams reached end of file without a match and Launch timed out
C6_Witness ==
    /\ Returned
    /\ \A s \in Streams : scState[s] = "done" /\ closed[s]
    /\ Publishers("addr") = {}
    /\ Publishers("err") = {}
    /\ lresult.kind = "err"
    /\ kills = 1

\* C7: when an error-indicator line is the only thing published, Launch
\* returns a failure echoing that line, the timer has not fired, and the
\* subprocess has been killed when Launch returns.
C7_ErrorLineFatal ==
    (Returned /\ Publishers("err") # {} /\ Publishers("addr") = {}) =>
        /\ \E s \in Publishers("err") :
              lresult = [kind |-> "err",
                         err |-> [kind |-> "raw",
                                  text |-> <<"dlv", "error:">> \o StopLine(s)]]
        /\ \A i \in 1..Len(events) : events[i] # <<"timer">>
        /\ kills = 1
        /\ proc # "running"

\* the subprocess wrote a single error line to standard output
C7_Witness ==
    /\ Returned
    /\ Publishers("err") = {"stdout"}
    /\ lines["stdout"] = << <<"could", "not", "launch", "process:", "build", "error">> >>
    /\ lines["stderr"] = <<>>
    /\ lresult.kind = "err"
    /\ proc = "killed"

\* C14: when the dlv executable cannot be resolved, Launch returns before any
\* subprocess exists (no process, no pid, nothing to kill), and the Response
\* `start` prints for it is a failure whose error code is not INTERNAL_ERROR
\* and whose exit code is not the generic one.
DebuggerUnresolved == lpc = "done" /\ lresult = LaunchErr(LookPathError)

C14_UnresolvedDebuggerIsDistinct ==
    DebuggerUnresolved =>
        /\ proc = "none" /\ pid = 0 /\ kills = 0
        /\ \A s \in Streams : lines[s] = <<>> /\ scState[s] = "idle"
        /\ built # <<>> =>
            /\ ~built[1].Success
            /\ built[1].Error # Nil
            /\ built[1].Error[1].Code # ErrCodeInternalError
            /\ exitc # ExitGenericError

C14_Witness ==
    /\ DebuggerUnresolved
    /\ built # <<>>
    /\ built[1].Command = "start"
    /\ built[1].Error[1].Code = ErrCodeNotFound

\* C17: the timer Launch arms while it waits for the address runs for the
\* startup timeout carried by the configuration `start` passes (--timeout),
\* and for 30 seconds only when the configuration carries none.
ConfiguredTimer(cfg) == IF cfg.Timeout = 0 THEN 30 ELSE cfg.Timeout

C17_TimerUsesConfiguredTimeout ==
    \A i \in 1..Len(events) :
        events[i][1] = "arm" => events[i][2] = ConfiguredTimer(config)

\* C22: a Launch that spawned the subprocess returns once, with one of
\* three outcomes (the address, the failure echoing an error line, the
\* timeout failure), and nothing that happens after the return (a scanner
\* publishing, the timer) changes what was returned.
Outcome ==
    IF lresult.kind = "ok" THEN "ready"
    ELSE IF lresult.kind = "none" THEN "none"
    ELSE IF lresult.err.text = LaunchTimeoutText THEN "timeout"
    ELSE IF Len(lresult.err.text) >= 2 /\ SubSeq(lresult.err.text, 1, 2) = <<"dlv", "error:">>
        THEN "errorline"
    ELSE "other"

Returns == { i \in 1..Len(events) : events[i] = <<"return">> }

C22_LaunchResolvesOnce ==
    /\ [](Returned => (Outcome \in {"ready", "errorline", "timeout"}
                        /\ Cardinality(Returns) = 1))
    /\ [](~Returned /\ lpc # "done" => Outcome = "none")
    /\ [][lpc = "done" => (lpc' = "done" /\ lresult' = lresult)]_vars

\* Launch returned the address and a scanner published an error afterwards
C22_Witness ==
    /\ Returned
    /\ Outcome = "ready"
    /\ \E i \in 1..Len(events) :
        /\ i > ReturnIdx
        /\ events[i][1] = "pub"
        /\ events[i][2] = "err"

\* C23: when one scanner has published an address and the other a startup
\* error, in either order, before Launch takes a result, Launch returns the
\* result that was published first and the later one is discarded.
PubIdx(k) == CHOOSE i \in 1..Len(events) : events[i][1] = "pub" /\ events[i][2] = k

BothPublishedBeforeReturn ==
    /\ Returned
    /\ Publishers("addr") # {}
    /\ Publishers("err") # {}

C23_FirstPublicationWins ==
    BothPublishedBeforeReturn =>
        IF PubIdx("addr") < PubIdx("err")
        THEN Outcome = "ready"
        ELSE Outcome = "errorline"

\* C24: in every execution of a Launch that spawned the subprocess both
\* scanners eventually terminate, whichever outcome won, and no scanner
\* reads on once the outcome is decided.
C24_ScannersTerminate ==
    /\ [](proc # "none" => <>(\A s \in Streams : scState[s] = "done"))
    /\ [][Returned => scPos' = scPos]_vars

\* C25: a scanner that reaches end of file without having seen an address
\* line or an error line publishes nothing and does not make Launch
\* return; when both scanners ended that way, the only outcome Launch can
\* return is the timeout failure.
SilentEOF(s) ==
    /\ scState[s] = "done"
    /\ \A i \in 1..Len(events) :
            ~(Len(events[i]) = 3 /\ events[i][3] = s)

ReachesEOF(s) ==
    /\ scState[s] = "scanning"
    /\ scState'[s] = "done"
    /\ scPos'[s] = scPos[s]

C25_EndOfFileIsNotFailure ==
    /\ [][(\E s \in Streams : ReachesEOF(s)) =>
            /\ lpc' = lpc /\ lresult' = lresult
            /\ addrChan' = addrChan /\ errChan' = errChan
            /\ kills' = kills /\ events' = events]_vars
    /\ []((Returned /\ \A s \in Streams : SilentEOF(s)) => Outcome = "timeout")

\* the subprocess died silently: both scanners are at end of file and
\* Launch is still blocked in its select
C25_Witness ==
    /\ lpc = "waiting"
    /\ proc = "exited"
    /\ lresult.kind = "none"
    /\ \A s \in Streams : SilentEOF(s) /\ closed[s]

\* C26: once Launch has returned success, no scanner reads a further line
\* of the standard output or standard error of the subprocess.
C26_NoReadAfterSuccess ==
    [][(Returned /\ Outcome = "ready") => scPos' = scPos]_vars

\* C27: Launch kills the subprocess exactly when it returns a failure after
\* the spawn (error line, timeout); when it returns success it has not
\* killed the subprocess and has not waited for it, and the subprocess is
\* running at that moment.
LaunchReturns == lpc # "done" /\ lpc' = "done" /\ proc # "none"

C27_KillOnFailureOnly ==
    /\ [](kills = (IF Returned /\ Outcome \in {"errorline", "timeout"} THEN 1 ELSE 0))
    /\ [][(LaunchReturns /\ lresult'.kind = "ok") => proc' = "running"]_vars

\* C27, as the code has it: the kill count is as above, and on success the
\* subprocess has not been killed by Launch; it is running unless it ended
\* by itself before Launch returned.
C27_KillOnFailureOnlyUnlessEnded ==
    /\ [](kills = (IF Returned /\ Outcome \in {"errorline", "timeout"} THEN 1 ELSE 0))
    /\ [][(LaunchReturns /\ lresult'.kind = "ok") =>
            (proc' = proc /\ proc' \in {"running", "exited"})]_vars

\* Launch returned the address of a subprocess it left running
C27_Witness ==
    /\ Returned
    /\ Outcome = "ready"
    /\ proc = "running"
    /\ kills = 0
    /\ \E s \in Streams : scState[s] = "scanning"

(***************************************************************************)
(* internal/debugger/client.go: timeout-bounded calls                      *)
(***************************************************************************)
\* the timeout a connected Client starts with: 30 * time.Second
DefaultClientTimeout == 30

ResumeOps == {"Continue", "Next", "Step", "StepOut"}

\* what rpc.Client.Call hands back: a reply or an error
Reply(state) == [ok |-> TRUE, state |-> state]
Failure(text) == [ok |-> FALSE, err |-> RawError(text)]

\* callWithTimeout's `case <-ctx.Done()` arm
TimeoutResult(method, timeout) == InfoError(<<Timeout(method, timeout)>>)

\* Continue / Next / Step / StepOut around callWithDefaultTimeout: the
\* error as is, or the state of the reply
ResumeReturn(err, out) ==
    IF err # NilError THEN [kind |-> "err", err |-> err]
    ELSE [kind |-> "state", state |-> out]

\* the value a resume-class operation returns when the `done` arm is taken
FromDone(r) ==
    IF r.ok THEN ResumeReturn(NilError, r.state) ELSE ResumeReturn(r.err, <<>>)

\* the value it returns when the `ctx.Done()` arm is taken
FromDeadline(timeout) == ResumeReturn(TimeoutResult("Command", timeout), <<>>)

(***************************************************************************)
(* SpecCall: one resume-class operation on a connected Client              *)
(***************************************************************************)
SampleTimeouts == {0, 1, 30}

SampleStates ==
    { [Running |-> FALSE, Exited |-> FALSE, ExitStatus |-> 0],
      [Running |-> FALSE, Exited |-> TRUE, ExitStatus |-> 2] }

SampleRpcErrors ==
    { <<"connection", "is", "shut", "down">>,
      <<"read", "tcp", "i/o", "timeout">> }

SampleAnswers ==
    { Reply(st) : st \in SampleStates } \cup { Failure(t) : t \in SampleRpcErrors }

InitCall ==
    /\ IdleResponse
    /\ IdleLaunch
    /\ IdleCLI
    /\ cTimeout = DefaultClientTimeout
    /\ cpc = "connected"
    /\ op = "none"
    /\ ctxDone = FALSE
    /\ task = "none"
    /\ answer = <<>>
    /\ doneChan = <<>>
    /\ cresult = [kind |-> "none"]
    /\ cevents = <<>>

\* Client.SetTimeout
SetTimeout ==
    /\ cpc = "connected"
    /\ \E d \in SampleTimeouts : cTimeout' = d
    /\ UNCHANGED <<cpc, op, ctxDone, task, answer, doneChan, cresult, cevents>>
    /\ UNCHANGED <<respVars, launchVars, cliVars>>

\* a resume-class operation up to the `go func()` of callWithTimeout:
\* context.WithTimeout(c.timeout) is already expired when c.timeout <= 0
CallStart ==
    /\ cpc = "connected"
    /\ \E m \in ResumeOps : op' = m
    /\ ctxDone' = (cTimeout <= 0)
    /\ cevents' = IF cTimeout <= 0 THEN <<"deadline">> ELSE <<>>
    /\ task' = "calling"
    /\ cpc' = "spawned"
    /\ UNCHANGED <<cTimeout, answer, doneChan, cresult>>
    /\ UNCHANGED <<respVars, launchVars, cliVars>>

\* the remote side answers: client.Call returns in the task
RemoteAnswer ==
    /\ task = "calling"
    /\ \E r \in SampleAnswers : answer' = <<r>>
    /\ task' = "sending"
    /\ cevents' = Append(cevents, "answer")
    /\ UNCHANGED <<cTimeout, cpc, op, ctxDone, doneChan, cresult>>
    /\ UNCHANGED <<respVars, launchVars, cliVars>>

\* `done <- result` on an unbuffered channel: the send completes only while
\* the caller is receiving in the select
TaskSend_unbuffered ==
    /\ task = "sending"
    /\ cpc = "waiting"
    /\ cresult' = FromDone(answer[1])
    /\ cpc' = "returned"
    /\ cevents' = Append(cevents, "return")
    /\ task' = "exited"
    /\ UNCHANGED doneChan
    /\ UNCHANGED <<cTimeout, op, ctxDone, answer>>
    /\ UNCHANGED <<respVars, launchVars, cliVars>>

\* the task executes `done <- result`; a caller blocked in the select
\* receives the value directly
TaskSend ==
    /\ task = "sending"
    /\ \/ /\ cpc = "waiting"
          /\ cresult' = FromDone(answer[1])
          /\ cpc' = "returned"
          /\ cevents' = Append(cevents, "return")
          /\ task' = "exited"
          /\ UNCHANGED doneChan
       \/ /\ cpc # "waiting"
          /\ Len(doneChan) < 1
          /\ doneChan' = Append(doneChan, answer[1])
          /\ task' = "exited"
          /\ cevents' = Append(cevents, "send")
          /\ UNCHANGED <<cpc, cresult>>
    /\ UNCHANGED <<cTimeout, op, ctxDone, answer>>
    /\ UNCHANGED <<respVars, launchVars, cliVars>>

\* the deadline of the context passes
DeadlineFire ==
    /\ cpc \in {"spawned", "waiting"}
    /\ ~ctxDone
    /\ ctxDone' = TRUE
    /\ IF cpc = "waiting"
       THEN /\ cresult' = FromDeadline(cTimeout)
            /\ cpc' = "returned"
            /\ cevents' = cevents \o <<"deadline", "return">>
       ELSE /\ cevents' = Append(cevents, "deadline")
            /\ UNCHANGED <<cpc, cresult>>
    /\ UNCHANGED <<cTimeout, op, task, answer, doneChan>>
    /\ UNCHANGED <<respVars, launchVars, cliVars>>

\* the caller reaches the select of callWithTimeout: with both arms ready
\* one is chosen at random; with none ready the caller blocks
CallSelect ==
    /\ cpc = "spawned"
    /\ \/ /\ doneChan # <<>>
          /\ cresult' = FromDone(doneChan[1])
          /\ doneChan' = <<>>
          /\ cpc' = "returned"
          /\ cevents' = Append(cevents, "return")
       \/ /\ ctxDone
          /\ cresult' = FromDeadline(cTimeout)
          /\ cpc' = "returned"
          /\ cevents' = Append(cevents, "return")
          /\ UNCHANGED doneChan
       \/ /\ doneChan = <<>>
          /\ ~ctxDone
          /\ cpc' = "waiting"
          /\ UNCHANGED <<cresult, doneChan, cevents>>
    /\ UNCHANGED <<cTimeout, op, ctxDone, task, answer>>
    /\ UNCHANGED <<respVars, launchVars, cliVars>>

NextCall ==
    \/ SetTimeout
    \/ CallStart
    \/ RemoteAnswer
    \/ TaskSend
    \/ DeadlineFire
    \/ CallSelect

SpecCall == InitCall /\ [][NextCall]_vars

(***************************************************************************)
(* Properties of the timeout-bounded call                                  *)
(***************************************************************************)
IndexOf(e) == CHOOSE i \in 1..Len(cevents) : cevents[i] = e

Happened(e) == \E i \in 1..Len(cevents) : cevents[i] = e

\* the deadline passed while the remote side had not answered
DeadlineBeforeAnswer ==
    /\ Happened("deadline")
    /\ Happened("answer") => IndexOf("deadline") < IndexOf("answer")

IsTimeoutOf(r, seconds) ==
    /\ r.kind = "err"
    /\ r.err.kind = "info"
    /\ r.err.ptr # <<>>
    /\ r.err.ptr[1].Code = "TIMEOUT"
    /\ r.err.ptr[1].Details = <<"operation", "Command", "timeout_seconds", ToString(seconds)>>

\* C8: a resume-class call whose remote side has not answered when the
\* configured timeout elapses returns a Timeout Error Info reporting the
\* configured duration.
C8_TimeoutAfterDeadline ==
    (cpc = "returned" /\ DeadlineBeforeAnswer) => IsTimeoutOf(cresult, cTimeout)

\* C28: in a timeout-bounded call the first event wins.  When the call's
\* result was delivered to the done channel before the deadline passed, the
\* operation returns that result and not Timeout; when the deadline passed
\* before the result was delivered, it returns Timeout and not the result.
Before(e1, e2) ==
    /\ Happened(e1)
    /\ Happened(e2) => IndexOf(e1) < IndexOf(e2)

C28_FirstEventWins ==
    cpc = "returned" =>
        /\ (Before("send", "deadline") /\ Before("send", "return")) =>
                cresult = FromDone(answer[1])
        /\ (Before("deadline", "send") /\ Before("deadline", "answer")
                /\ Before("deadline", "return")) =>
                cresult = FromDeadline(cTimeout)

(***************************************************************************)
(* SpecResponse: the constructors and ExitCode applied to bounded inputs   *)
(***************************************************************************)
CommandNames == {"break", "eval", "status"}

\* a Data value encoding/json rejects (a float64 infinity): Marshal returns
\* an UnsupportedValueError for it
Unserialisable == <<"+Inf">>

SampleData == {Nil, <<"payload">>, Unserialisable}

SampleMessages == {<<>>, <<"Process", "paused">>}

SampleTexts ==
    { <<"dial", "tcp", "connect", "connection", "refused">>,
      <<"read", "tcp", "i/o", "timeout">>,
      <<"Timed", "Out", "waiting">>,
      <<"breakpoint", "Not", "Found">>,
      <<"file", "does", "not", "exist">>,
      <<"failed", "to", "connect">>,
      <<"Process", "1", "has", "exited">>,
      <<"process", "already", "Exited">>,
      <<"unexpected", "EOF">>,
      <<>> }

\* *ErrorInfo values: nil, every code of the taxonomy with and without
\* details, and codes outside the taxonomy
SampleInfos ==
    {Nil}
    \cup { <<[Code |-> c, Message |-> <<"m">>, Details |-> d]>> :
             c \in ErrCodes \cup {"SOMETHING_ELSE", ""},
             d \in {NoDetails, <<"k", "v">>} }

SampleErrors ==
    {NilError}
    \cup { InfoError(p) : p \in SampleInfos }
    \cup { RawError(t) : t \in SampleTexts }

InitResponse ==
    /\ IdleResponse
    /\ IdleLaunch
    /\ IdleCall
    /\ IdleCLI

BuildSuccess ==
    /\ exitState.how = "none"
    /\ \E c \in CommandNames, d \in SampleData, m \in SampleMessages :
            /\ built' = <<Success(c, d, m)>>
            /\ builtBy' = "Success"
            /\ UNCHANGED <<launchVars, callVars, cliVars>>
            /\ exitc' = ExitCode(Success(c, d, m))

BuildError ==
    /\ exitState.how = "none"
    /\ \E c \in CommandNames, e \in SampleErrors :
            /\ built' = <<Error(c, e)>>
            /\ builtBy' = "Error"
            /\ UNCHANGED <<launchVars, callVars, cliVars>>
            /\ exitc' = ExitCode(Error(c, e))

BuildErrorWithInfo ==
    /\ exitState.how = "none"
    /\ \E c \in CommandNames, p \in SampleInfos :
            /\ built' = <<ErrorWithInfo(c, p)>>
            /\ builtBy' = "ErrorWithInfo"
            /\ UNCHANGED <<launchVars, callVars, cliVars>>
            /\ exitc' = ExitCode(ErrorWithInfo(c, p))

BuildErrorMsg ==
    /\ exitState.how = "none"
    /\ \E c \in CommandNames, t \in SampleTexts :
            /\ built' = <<ErrorMsg(c, t)>>
            /\ builtBy' = "ErrorMsg"
            /\ UNCHANGED <<launchVars, callVars, cliVars>>
            /\ exitc' = ExitCode(ErrorMsg(c, t))

\* json.Marshal / Encoder.Encode of a value: Nil when it fails, else the
\* document.  Encode writes nothing unless the whole value was marshalled.
Marshal(v) == IF v = Unserialisable THEN Nil ELSE <<v>>

\* printJSON discards the error of Encode
printJSON(r) == IF Marshal(r.Data) = Nil THEN <<>> ELSE <<r>>

\* printText writes the message line, then the data line; the error of
\* MarshalIndent is discarded and the data line is then empty
printText(r) ==
    IF r.Success /\ r.Data # Nil /\ Marshal(r.Data) = Nil
    THEN <<[r EXCEPT !.Data = <<"">>]>>
    ELSE <<r>>

PrintResponse(r, format) ==
    IF format = "text" THEN printText(r) ELSE printJSON(r)

\* Response.PrintAndExit on the Response last built
PrintAndExitBuilt ==
    /\ built # <<>>
    /\ exitState.how = "none"
    /\ \E f \in {"json", "text"} : printed' = printed \o PrintResponse(built[1], f)
    /\ exitState' = [how |-> "exit", code |-> ExitCode(built[1])]
    /\ UNCHANGED <<inv, ipc, conn, deferred, dials, calls, gstate, connTimeout,
                   frames, answers, scopes>>
    /\ UNCHANGED <<respVars, launchVars, callVars>>

NextResponse ==
    \/ PrintAndExitBuilt
    \/ BuildSuccess
    \/ BuildError
    \/ BuildErrorWithInfo
    \/ BuildErrorMsg

SpecResponse == InitResponse /\ [][NextResponse]_vars

(***************************************************************************)
(* Properties of the Response envelope                                     *)
(***************************************************************************)

\* C2: ExitCode() is 0 on success; on failure 124 for TIMEOUT, 3 for
\* CONNECTION_FAILED and CONNECTION_REFUSED, 4 for NOT_FOUND, 2 for
\* INVALID_ARGUMENT, 125 for PROCESS_EXITED, and 1 for EVAL_FAILED,
\* INTERNAL_ERROR, any unrecognised code and a failure without Error Info.
C2_ExitCodeTable ==
    built # Nil =>
        LET r == built[1]
            code == IF r.Error = Nil THEN "none" ELSE r.Error[1].Code
        IN  /\ r.Success => exitc = 0
            /\ ~r.Success =>
                /\ code = "TIMEOUT" => exitc = 124
                /\ code \in {"CONNECTION_FAILED", "CONNECTION_REFUSED"} => exitc = 3
                /\ code = "NOT_FOUND" => exitc = 4
                /\ code = "INVALID_ARGUMENT" => exitc = 2
                /\ code = "PROCESS_EXITED" => exitc = 125
                /\ code \notin {"TIMEOUT", "CONNECTION_FAILED", "CONNECTION_REFUSED",
                                "NOT_FOUND", "INVALID_ARGUMENT", "PROCESS_EXITED"}
                       => exitc = 1

\* a failure Response classified NOT_FOUND from a plain error text
C2_Witness ==
    /\ built # Nil
    /\ builtBy = "Error"
    /\ ~built[1].Success
    /\ built[1].Error # Nil
    /\ built[1].Error[1].Code = "NOT_FOUND"
    /\ built[1].Error[1].Message = <<"breakpoint", "Not", "Found">>
    /\ exitc = 4

\* C3: every Response built by any constructor with any arguments carries
\* Error Info if and only if its success flag is false.
C3_ErrorInfoIffFailure ==
    built # Nil => ((built[1].Error # Nil) <=> ~built[1].Success)

\* C19: when the data of the Response being printed cannot be serialised,
\* PrintAndExit prints an internal-error Response instead and exits with
\* status 1; it never exits with the status of the original Response after
\* printing nothing or part of the document.
SerialisationFails ==
    /\ built # <<>>
    /\ built[1].Data # Nil
    /\ Marshal(built[1].Data) = Nil

C19_SerialisationFailureFallsBack ==
    [][(exitState.how = "none" /\ exitState'.how = "exit" /\ SerialisationFails) =>
            /\ Len(printed') = Len(printed) + 1
            /\ ~printed'[Len(printed')].Success
            /\ printed'[Len(printed')].Error # Nil
            /\ printed'[Len(printed')].Error[1].Code = ErrCodeInternalError
            /\ exitState'.code = ExitGenericError]_vars

\* C20: the exit code is a function of the success flag and the error code
\* alone: any Response that agrees with the one built on the success flag
\* and on the error code (or on its absence) has the same exit code,
\* whatever its command, data, message and error details.
SampleResponses ==
    [Success : BOOLEAN, Command : CommandNames, Data : SampleData,
     Message : SampleMessages, Error : SampleInfos]

SameKey(r1, r2) ==
    /\ r1.Success = r2.Success
    /\ (r1.Error = Nil) = (r2.Error = Nil)
    /\ (r1.Error # Nil /\ r2.Error # Nil) => r1.Error[1].Code = r2.Error[1].Code

C20_ExitCodeDependsOnKeyOnly ==
    built # <<>> =>
        \A r \in SampleResponses :
            SameKey(built[1], r) => ExitCode(r) = exitc

C20_Witness ==
    /\ built # <<>>
    /\ ~built[1].Success
    /\ built[1].Error # Nil
    /\ built[1].Error[1].Details # NoDetails
    /\ exitc = ExitNotFound
    /\ \E r \in SampleResponses :
        /\ SameKey(built[1], r)
        /\ r.Error[1].Details = NoDetails
        /\ r.Command # built[1].Command
        /\ r.Data # built[1].Data

\* C32: FromError classifies a free-text error by case-insensitive phrase
\* matching: "connection refused" gives ConnectionRefused, "timeout" gives
\* Timeout, "not found" gives NotFound, "exited" gives ProcessExited (the
\* phrases taken in that order), and InternalError is produced only when
\* none of the four phrases occurs.
ClassifiedText == built[1].Error[1].Message

C32_PhraseClassification ==
    (built # <<>> /\ builtBy = "Error" /\ built[1].Error # Nil) =>
        LET msg == ClassifiedText
            code == built[1].Error[1].Code
        IN  /\ code \in ErrCodes =>
                IF contains(msg, <<"connection", "refused">>)
                    THEN code = ErrCodeConnectionRefused
                ELSE IF contains(msg, <<"timeout">>) THEN code = ErrCodeTimeout
                ELSE IF contains(msg, <<"not", "found">>) THEN code = ErrCodeNotFound
                ELSE IF contains(msg, <<"exited">>) THEN code = ErrCodeProcessExited
                ELSE TRUE
            /\ code = ErrCodeInternalError =>
                /\ ~contains(msg, <<"connection", "refused">>)
                /\ ~contains(msg, <<"timeout">>)
                /\ ~contains(msg, <<"not", "found">>)
                /\ ~contains(msg, <<"exited">>)

(***************************************************************************)
(* cmd: one invocation of the command line, from cobra's Execute to the    *)
(* end of the process.  The global commands registered on rootCmd are run  *)
(* by Execute(); the commands built by NewRootCmd() are run by runCLI with *)
(* ExitFunc replaced by a panic that runCLI recovers.                      *)
(***************************************************************************)
Commands ==
    { "connect", "status", "continue", "next", "step", "stepout", "break",
      "clear", "locals", "args", "eval", "stack", "frame", "goroutine", "list",
      "quit", "goroutines" }

ResumeCommands == {"continue", "next", "step", "stepout"}

\* a word that names no command, and the absence of a command word
UnknownCommand == "nosuchcmd"
NoCommand == ""

\* cobra.ExactArgs(1) of connect, break, clear, eval, frame, goroutine; the
\* other commands declare no Args and accept any number of them
ValidateArgs(cmd, args) ==
    IF cmd \in {"connect", "break", "clear", "eval", "frame", "goroutine"}
    THEN Len(args) = 1
    ELSE TRUE

\* the generation of the handler that runs: one that prints a failure and
\* returns ("print"), or one that ends in PrintAndExit ("exit")
HandlerStyles(entry, cmd) ==
    IF entry = "runCLI" THEN {"exit"}
    ELSE IF cmd \in {"break", "clear", "locals", "args", "eval", "connect", "quit"}
        THEN {"print"}
    ELSE IF cmd \in {"stack", "frame", "goroutine", "goroutines"} THEN {"print", "exit"}
    ELSE {"exit"}

\* strconv.Atoi / strconv.ParseInt on the argument words the model uses
AtoiTable == [s \in {"7", "+7", "42", "4040", "1", "0", "-1"} |->
                 CASE s = "7" -> 7 [] s = "+7" -> 7 [] s = "42" -> 42
                   [] s = "4040" -> 4040 [] s = "1" -> 1 [] s = "0" -> 0
                   [] s = "-1" -> -1]

Atoi(s) == IF s \in DOMAIN AtoiTable THEN <<AtoiTable[s]>> ELSE Nil

\* strings.SplitN(location, ":", 2) on the argument words holding a colon
SplitTable ==
    [s \in {"main.go:42", "main.go:abc", "127.0.0.1:4040", "127.0.0.1:1"} |->
        CASE s = "main.go:42" -> <<"main.go", "42">>
          [] s = "main.go:abc" -> <<"main.go", "abc">>
          [] s = "127.0.0.1:4040" -> <<"127.0.0.1", "4040">>
          [] s = "127.0.0.1:1" -> <<"127.0.0.1", "1">>]

HasColon(s) == s \in DOMAIN SplitTable

\* time.ParseDuration on the values given to --timeout, in seconds; the
\* flag's default is 30 * time.Second
ParseDuration(s) ==
    CASE s = "" -> <<DefaultClientTimeout>>
      [] s = "1s" -> <<1>>
      [] s = "0s" -> <<0>>
      [] OTHER -> Nil

\* jsonrpc.Dial: a connection or an error
DialOk == [ok |-> TRUE, text |-> <<>>]
DialError(text) == [ok |-> FALSE, text |-> text]

DialOutcomes(address) ==
    { DialOk,
      DialError(<<"dial", "tcp", address, "connect:", "connection", "refused">>),
      DialError(<<"dial", "tcp", address, "i/o", "timeout">>),
      DialError(<<"dial", "tcp", "lookup", address, "no", "such", "host">>) }

\* debugger.Connect: the error it returns for a dial outcome
Connect(address, d) ==
    IF d.ok THEN NilError
    ELSE IF StringsContains(d.text, <<"connection", "refused">>)
        THEN InfoError(<<ConnectionRefused(address)>>)
    ELSE InfoError(<<ConnectionFailed(address, RawError(d.text))>>)

\* what the Delve server can answer to a call
\* SelectedGoroutine is nil or points to a goroutine, given by the File of
\* its CurrentLoc
RemoteStates ==
    { [Running |-> FALSE, Exited |-> FALSE, ExitStatus |-> 0,
       SelectedGoroutine |-> <<[File |-> "main.go"]>>],
      [Running |-> FALSE, Exited |-> FALSE, ExitStatus |-> 0,
       SelectedGoroutine |-> <<[File |-> ""]>>],
      [Running |-> FALSE, Exited |-> FALSE, ExitStatus |-> 0, SelectedGoroutine |-> Nil],
      [Running |-> FALSE, Exited |-> TRUE, ExitStatus |-> 2, SelectedGoroutine |-> Nil] }

RemoteErrors ==
    { <<"connection", "is", "shut", "down">>,
      <<"breakpoint", "not", "found">>,
      <<"no", "breakpoint", "with", "id", "7">>,
      <<"unknown", "goroutine", "7">>,
      <<"Process", "1", "has", "exited", "with", "status", "2">> }

RemoteAnswers ==
    { Reply(st) : st \in RemoteStates } \cup { Failure(t) : t \in RemoteErrors }

\* the most frames a Stacktrace reply of the model holds
MaxFrames == 2

\* rpc2.StacktraceOut.Locations with n frames
FramesReply(n) ==
    [ok |-> TRUE, frames |-> [i \in 1..n |-> [File |-> "main.go", Line |-> i]]]

\* what the server can answer to the call of method m
AnswersFor(m) ==
    IF m = "Stacktrace"
    THEN { FramesReply(n) : n \in 0..MaxFrames } \cup { Failure(t) : t \in RemoteErrors }
    ELSE RemoteAnswers

\* the error a Client method returns for the answer a to its remote call
MethodError(m, a, arg) ==
    IF a.ok THEN NilError
    ELSE IF m = "ClearBreakpoint" /\ StringsContains(a.err.text, <<"not", "found">>)
        THEN InfoError(<<NotFound("breakpoint", ToString(Atoi(arg)[1]))>>)
    ELSE IF m = "SwitchGoroutine"
            /\ (StringsContains(a.err.text, <<"not", "found">>)
                \/ StringsContains(a.err.text, <<"unknown", "goroutine">>))
        THEN InfoError(<<NotFound("goroutine", ToString(Atoi(arg)[1]))>>)
    ELSE IF m = "Eval" THEN InfoError(<<EvalFailed(arg, a.err)>>)
    ELSE a.err

\* the steps of a handler, in program order
HStep(k, m) == [k |-> k, m |-> m]

Program(cmd) ==
    CASE cmd = "connect" ->
            <<HStep("Connect", ""), HStep("call", "State"), HStep("Success", "")>>
      [] cmd = "status" ->
            <<HStep("MustGetClient", "defer"), HStep("call", "State"),
              HStep("Success", "")>>
      [] cmd \in ResumeCommands ->
            <<HStep("MustGetClient", "defer"), HStep("SetTimeout", ""),
              HStep("resume", "Command"), HStep("Success", "")>>
      [] cmd = "break" ->
            <<HStep("MustGetClient", "defer"), HStep("parse", "location"),
              HStep("call", "CreateBreakpoint"), HStep("Success", "")>>
      [] cmd = "clear" ->
            <<HStep("MustGetClient", "defer"), HStep("parse", "id"),
              HStep("call", "ClearBreakpoint"), HStep("Success", "")>>
      [] cmd = "goroutine" ->
            <<HStep("MustGetClient", "defer"), HStep("parse", "id"),
              HStep("call", "SwitchGoroutine"), HStep("Success", "")>>
      [] cmd \in {"locals", "args", "eval", "stack"} ->
            <<HStep("MustGetClient", "defer"), HStep("call", "State"),
              HStep("needGoroutine", ""),
              HStep("call", CASE cmd = "locals" -> "ListLocalVars"
                              [] cmd = "args" -> "ListFunctionArgs"
                              [] cmd = "eval" -> "Eval"
                              [] cmd = "stack" -> "Stacktrace"),
              HStep("Success", "")>>
      [] cmd = "frame" ->
            <<HStep("MustGetClient", "defer"), HStep("parse", "id"),
              HStep("call", "State"), HStep("needGoroutine", ""),
              HStep("call", "Stacktrace"), HStep("frameIndex", ""),
              HStep("Success", "")>>
      [] cmd = "list" ->
            <<HStep("MustGetClient", "defer"), HStep("call", "State"),
              HStep("needGoroutine", ""), HStep("location", ""),
              HStep("readSource", ""), HStep("Success", "")>>
      [] cmd = "quit" ->
            <<HStep("MustGetClient", "nodefer"), HStep("call", "Detach"),
              HStep("Success", "")>>
      [] cmd = "goroutines" ->
            <<HStep("MustGetClient", "defer"), HStep("call", "ListGoroutines"),
              HStep("callIgnored", "State"), HStep("Success", "")>>

At(k) ==
    /\ ipc.at = "run"
    /\ Program(inv.cmd)[ipc.i].k = k

CurrentStep == Program(inv.cmd)[ipc.i]

Advance == ipc' = [at |-> "run", i |-> ipc.i + 1]

Ended == [at |-> "end", i |-> 0]

\* the deferred c.Close() runs when the handler returns or panics
RunDefers(c, d) == IF d /\ c = "open" THEN "closed" ELSE c

\* Response.PrintAndExit: Print, then ExitFunc(ExitCode()).  os.Exit ends
\* the process without running deferred calls; the panic installed by
\* setupFuzzTest unwinds the handler and runCLI recovers the code.
PrintAndExit(r, c, d) ==
    /\ printed' = Append(printed, r)
    /\ exitState' = [how |-> "exit", code |-> ExitCode(r)]
    /\ conn' = IF inv.entry = "runCLI" THEN RunDefers(c, d) ELSE c
    /\ deferred' = d
    /\ ipc' = Ended

\* Response.Print followed by the handler's return: cobra's Execute returns
\* nil, Execute() returns and the process ends with status 0
PrintAndReturn(r, c, d) ==
    /\ printed' = Append(printed, r)
    /\ exitState' = [how |-> "return", code |-> ExitSuccess]
    /\ conn' = RunDefers(c, d)
    /\ deferred' = d
    /\ ipc' = Ended

\* the end of a handler branch, in the handler's generation
Finish(r, c, d) ==
    IF inv.style = "print" THEN PrintAndReturn(r, c, d) ELSE PrintAndExit(r, c, d)

\* the Response of a handler whose argument does not parse as a number
ParseFailure(cmd, style, arg) ==
    LET text == IF cmd = "break" THEN SplitTable[arg][2] ELSE arg
        msg == CASE cmd = "break" -> <<"invalid", "line", "number:", text>>
                 [] cmd = "clear" -> <<"invalid", "breakpoint", "ID:", text>>
                 [] cmd = "goroutine" -> <<"invalid", "goroutine", "ID:", text>>
                 [] cmd = "frame" -> <<"invalid", "frame", "index:", text>>
        details == IF cmd = "break" THEN <<"location", arg, "line", text>>
                   ELSE IF cmd = "frame" THEN <<"index", arg>>
                   ELSE <<"id", arg>>
    IN  IF style = "print" THEN ErrorMsg(cmd, msg)
        ELSE ErrorWithInfo(cmd, <<InvalidArgumentWithDetails(msg, details)>>)

\* the Response of a handler that finds no selected goroutine
NoGoroutine(cmd, style) ==
    IF style = "print" THEN ErrorMsg(cmd, <<"no", "goroutine", "selected">>)
    ELSE ErrorWithInfo(cmd, <<NotFound("goroutine", "none selected")>>)

\* the message of a successful Response
SuccessMessage(cmd, st) ==
    CASE cmd = "connect" -> <<"Connected", "to", "debug", "server">>
      [] cmd = "quit" -> <<"Debug", "session", "terminated">>
      [] cmd = "status" ->
            IF st[1].Exited THEN <<"Process", "exited">>
            ELSE IF st[1].Running THEN <<"Process", "running">>
            ELSE <<"Process", "paused">>
      [] cmd = "continue" ->
            IF st[1].Exited THEN <<"Process", "exited">> ELSE <<"Process", "stopped">>
      [] OTHER -> <<>>

SampleArgs ==
    { <<>>, <<"main.go:42">>, <<"main.go:abc">>, <<"main.main">>, <<"7">>,
      <<"+7">>, <<"0">>, <<"1">>, <<"-1">>, <<"abc">>, <<"127.0.0.1:4040">>, <<"7", "8">> }

SampleAddrs == {"", "127.0.0.1:4040"}

SampleFormats == {"json", "text"}

SampleTimeoutFlags == {"", "1s", "0s", "abc"}

Init ==
    /\ IdleResponse
    /\ IdleLaunch
    /\ IdleCall
    /\ \E e \in {"Execute", "runCLI"}, c \in Commands \cup {UnknownCommand, NoCommand},
          a \in SampleArgs, ad \in SampleAddrs, f \in SampleFormats,
          t \in SampleTimeoutFlags :
        \E st \in HandlerStyles(e, c) :
            /\ c = NoCommand => a = <<>>
            /\ inv = [entry |-> e, style |-> st, cmd |-> c, args |-> a,
                      addr |-> ad, format |-> f, timeout |-> t, after |-> <<>>]
    /\ ipc = [at |-> "start", i |-> 0]
    /\ conn = "none"
    /\ deferred = FALSE
    /\ dials = 0
    /\ calls = <<>>
    /\ printed = <<>>
    /\ exitState = [how |-> "none", code |-> 0]
    /\ gstate = <<>>
    /\ connTimeout = 0
    /\ frames = <<>>
    /\ answers = <<>>
    /\ scopes = <<>>

\* cobra's Execute: find the command, parse the flags, validate the
\* arguments, run the handler.  With SilenceErrors and SilenceUsage an
\* error is returned without anything being written; Execute() then calls
\* os.Exit(ExitGenericError) and runCLI returns 1.  The root command has no
\* Run: without a command word cobra writes the help text and returns nil.
CobraExecute ==
    /\ ipc.at = "start"
    /\ IF \/ inv.cmd = UnknownCommand
          \/ ParseDuration(inv.timeout) = Nil
          \/ (inv.cmd \in Commands /\ ~ValidateArgs(inv.cmd, inv.args))
       THEN /\ exitState' = [how |-> IF inv.entry = "Execute" THEN "exit" ELSE "return",
                             code |-> ExitGenericError]
            /\ ipc' = Ended
       ELSE IF inv.cmd = NoCommand
       THEN /\ exitState' = [how |-> "return", code |-> ExitSuccess]
            /\ ipc' = Ended
       ELSE /\ ipc' = [at |-> "run", i |-> 1]
            /\ UNCHANGED exitState
    /\ UNCHANGED <<inv, conn, deferred, dials, calls, printed, gstate, connTimeout>>
    /\ UNCHANGED <<frames, answers, scopes>>
    /\ UNCHANGED <<respVars, launchVars, callVars>>

\* MustGetClient / mustGetClient, and the `defer c.Close()` that follows it
MustGetClient_dialFirst ==
    /\ At("MustGetClient")
    /\ IF inv.addr = ""
       THEN /\ PrintAndExit(ErrorWithInfo(inv.cmd,
                    <<InvalidArgument(<<"--addr", "flag", "is", "required">>)>>),
                    conn, deferred)
            /\ dials' = dials + 1
            /\ UNCHANGED connTimeout
       ELSE \E d \in DialOutcomes(inv.addr) :
            /\ dials' = dials + 1
            /\ IF d.ok
               THEN /\ conn' = "open"
                    /\ deferred' = (CurrentStep.m = "defer")
                    /\ connTimeout' = DefaultClientTimeout
                    /\ Advance
                    /\ UNCHANGED <<printed, exitState>>
               ELSE /\ PrintAndExit(Error(inv.cmd, Connect(inv.addr, d)), conn, deferred)
                    /\ UNCHANGED connTimeout
    /\ UNCHANGED <<inv, calls, gstate>>
    /\ UNCHANGED <<frames, answers, scopes>>
    /\ UNCHANGED <<respVars, launchVars, callVars>>

MustGetClient ==
    /\ At("MustGetClient")
    /\ IF inv.addr = ""
       THEN /\ PrintAndExit(ErrorWithInfo(inv.cmd,
                    <<InvalidArgument(<<"--addr", "flag", "is", "required">>)>>),
                    conn, deferred)
            /\ UNCHANGED <<dials, connTimeout>>
       ELSE \E d \in DialOutcomes(inv.addr) :
            /\ dials' = dials + 1
            /\ IF d.ok
               THEN /\ conn' = "open"
                    /\ deferred' = (CurrentStep.m = "defer")
                    /\ connTimeout' = DefaultClientTimeout
                    /\ Advance
                    /\ UNCHANGED <<printed, exitState>>
               ELSE /\ PrintAndExit(Error(inv.cmd, Connect(inv.addr, d)), conn, deferred)
                    /\ UNCHANGED connTimeout
    /\ UNCHANGED <<inv, calls, gstate>>
    /\ UNCHANGED <<frames, answers, scopes>>
    /\ UNCHANGED <<respVars, launchVars, callVars>>

\* the connect handler's debugger.Connect(args[0]) and its defer
ConnectCommandDial ==
    /\ At("Connect")
    /\ \E d \in DialOutcomes(inv.args[1]) :
        /\ dials' = dials + 1
        /\ IF d.ok
           THEN /\ conn' = "open"
                /\ deferred' = TRUE
                /\ connTimeout' = DefaultClientTimeout
                /\ Advance
                /\ UNCHANGED <<printed, exitState>>
           ELSE /\ Finish(Error(inv.cmd, Connect(inv.args[1], d)), conn, deferred)
                /\ UNCHANGED connTimeout
    /\ UNCHANGED <<inv, calls, gstate>>
    /\ UNCHANGED <<frames, answers, scopes>>
    /\ UNCHANGED <<respVars, launchVars, callVars>>

\* break: strings.Contains / SplitN / Atoi on the location;
\* clear, goroutine: Atoi / ParseInt on the id
ParseArg ==
    /\ At("parse")
    /\ LET arg == inv.args[1]
           bad == IF CurrentStep.m = "location"
                  THEN HasColon(arg) /\ Atoi(SplitTable[arg][2]) = Nil
                  ELSE Atoi(arg) = Nil
       IN  IF bad
           THEN Finish(ParseFailure(inv.cmd, inv.style, arg), conn, deferred)
           ELSE /\ Advance
                /\ UNCHANGED <<printed, exitState, conn, deferred>>
    /\ UNCHANGED <<inv, dials, calls, gstate, connTimeout>>
    /\ UNCHANGED <<frames, answers, scopes>>
    /\ UNCHANGED <<respVars, launchVars, callVars>>

\* c.SetTimeout(GetTimeout())
HandlerSetTimeout ==
    /\ At("SetTimeout")
    /\ connTimeout' = ParseDuration(inv.timeout)[1]
    /\ Advance
    /\ UNCHANGED <<inv, conn, deferred, dials, calls, printed, exitState, gstate>>
    /\ UNCHANGED <<frames, answers, scopes>>
    /\ UNCHANGED <<respVars, launchVars, callVars>>

\* a Client method built on c.call, and the handler's test of its error.
\* c.call has no deadline: it blocks for as long as the server is silent.
\* `state, _ := c.GetState()` of goroutines: the error of the call is
\* dropped, a nil state is kept, and the handler goes on
RemoteCallIgnored ==
    /\ At("callIgnored")
    /\ calls' = Append(calls, CurrentStep.m)
    /\ \/ /\ ipc' = [at |-> "blocked", i |-> ipc.i]
          /\ UNCHANGED <<gstate, answers>>
       \/ \E a \in AnswersFor(CurrentStep.m) :
            /\ answers' = Append(answers, a)
            /\ gstate' = IF a.ok THEN <<a.state>> ELSE <<>>
            /\ Advance
    /\ UNCHANGED <<inv, dials, connTimeout, printed, exitState, conn, deferred>>
    /\ UNCHANGED <<frames, scopes>>
    /\ UNCHANGED <<respVars, launchVars, callVars>>

\* the frame argument the handlers of locals, args and eval pass to
\* ListLocalVars, ListFunctionArgs and Eval
ScopedMethods == {"ListLocalVars", "ListFunctionArgs", "Eval"}

ScopeFrame(cmd) == 0

RemoteCall ==
    /\ At("call")
    /\ LET m == CurrentStep.m
           arg == IF Len(inv.args) > 0 THEN inv.args[1] ELSE ""
       IN  /\ calls' = Append(calls, m)
           /\ scopes' = IF m \in ScopedMethods
                         THEN Append(scopes, ScopeFrame(inv.cmd)) ELSE scopes
           /\ \/ /\ ipc' = [at |-> "blocked", i |-> ipc.i]
                 /\ UNCHANGED <<printed, exitState, conn, deferred, gstate>>
                 /\ UNCHANGED <<frames, answers>>
              \/ \E a \in AnswersFor(m) :
                    LET err == MethodError(m, a, arg) IN
                    /\ answers' = Append(answers, a)
                    /\ IF err # NilError
                       THEN /\ Finish(Error(inv.cmd, err), conn, deferred)
                            /\ UNCHANGED <<gstate, frames>>
                       ELSE /\ Advance
                            /\ gstate' = IF m \in {"State", "SwitchGoroutine"}
                                         THEN <<a.state>> ELSE gstate
                            /\ frames' = IF m = "Stacktrace" THEN a.frames ELSE frames
                            /\ UNCHANGED <<printed, exitState, conn, deferred>>
    /\ UNCHANGED <<inv, dials, connTimeout>>
    /\ UNCHANGED <<respVars, launchVars, callVars>>

\* a handler that answers a Timeout by issuing the resume call again on the
\* same connection while the abandoned call is still outstanding
ResumeCall_retryOnTimeout ==
    /\ At("resume")
    /\ calls' = Append(calls, CurrentStep.m)
    /\ \E a \in RemoteAnswers, arm \in {"done", "deadline"} :
        LET res == IF arm = "done" THEN FromDone(a) ELSE FromDeadline(connTimeout) IN
        /\ answers' = IF arm = "done" THEN Append(answers, a) ELSE answers
        /\ IF res.kind = "err" /\ arm = "deadline" /\ Len(calls) < 2
           THEN UNCHANGED <<ipc, printed, exitState, conn, deferred, gstate>>
           ELSE IF res.kind = "err"
           THEN /\ Finish(Error(inv.cmd, res.err), conn, deferred)
                /\ UNCHANGED gstate
           ELSE /\ Advance
                /\ gstate' = <<res.state>>
                /\ UNCHANGED <<printed, exitState, conn, deferred>>
    /\ UNCHANGED <<inv, dials, connTimeout>>
    /\ UNCHANGED <<frames, scopes>>
    /\ UNCHANGED <<respVars, launchVars, callVars>>

\* Continue / Next / Step / StepOut: callWithDefaultTimeout returns what
\* the server answered or, once the deadline has passed, a Timeout
ResumeCall ==
    /\ At("resume")
    /\ calls' = Append(calls, CurrentStep.m)
    /\ \E a \in RemoteAnswers, arm \in {"done", "deadline"} :
        LET res == IF arm = "done" THEN FromDone(a) ELSE FromDeadline(connTimeout) IN
        /\ answers' = IF arm = "done" THEN Append(answers, a) ELSE answers
        /\ IF res.kind = "err"
           THEN /\ Finish(Error(inv.cmd, res.err), conn, deferred)
                /\ UNCHANGED gstate
           ELSE /\ Advance
                /\ gstate' = <<res.state>>
                /\ UNCHANGED <<printed, exitState, conn, deferred>>
    /\ UNCHANGED <<inv, dials, connTimeout>>
    /\ UNCHANGED <<frames, scopes>>
    /\ UNCHANGED <<respVars, launchVars, callVars>>

\* if state.SelectedGoroutine == nil
NeedGoroutine ==
    /\ At("needGoroutine")
    /\ IF gstate[1].SelectedGoroutine = Nil
       THEN Finish(NoGoroutine(inv.cmd, inv.style), conn, deferred)
       ELSE /\ Advance
            /\ UNCHANGED <<printed, exitState, conn, deferred>>
    /\ UNCHANGED <<inv, dials, calls, gstate, connTimeout>>
    /\ UNCHANGED <<frames, answers, scopes>>
    /\ UNCHANGED <<respVars, launchVars, callVars>>

\* a runtime panic in the handler: the deferred calls run while the stack
\* unwinds, nothing is printed; the process ends with status 2, and runCLI
\* reports panicked = true
Panic(c, d) ==
    /\ exitState' = [how |-> "panic", code |-> IF inv.entry = "Execute" THEN 2 ELSE 0]
    /\ conn' = RunDefers(c, d)
    /\ deferred' = d
    /\ ipc' = Ended
    /\ UNCHANGED printed

\* the Response of frame for an index at or past the end of the stack
NoSuchFrame(style, idx, n) ==
    IF style = "print"
    THEN ErrorMsg("frame", <<"frame", ToString(idx), "does", "not", "exist",
                             "(stack", "has", ToString(n), "frames)">>)
    ELSE ErrorWithInfo("frame",
            <<NotFound("frame", ToString(idx) \o " (stack has " \o ToString(n) \o " frames)")>>)

\* frame: `if frameIdx >= len(frames)`, then `frames[frameIdx]`, which
\* panics on an index outside 0..len(frames)-1
FrameIndex ==
    /\ At("frameIndex")
    /\ LET frameIdx == Atoi(inv.args[1])[1] IN
       IF frameIdx >= Len(frames)
       THEN Finish(NoSuchFrame(inv.style, frameIdx, Len(frames)), conn, deferred)
       ELSE IF frameIdx < 0
       THEN Panic(conn, deferred)
       ELSE /\ Advance
            /\ UNCHANGED <<printed, exitState, conn, deferred>>
    /\ UNCHANGED <<inv, dials, calls, gstate, connTimeout, frames, answers, scopes>>
    /\ UNCHANGED <<respVars, launchVars, callVars>>

\* list: `if loc.File == ""`
ListLocation ==
    /\ At("location")
    /\ IF gstate[1].SelectedGoroutine[1].File = ""
       THEN Finish(ErrorWithInfo("list",
                <<NotFound("source location", "none available")>>), conn, deferred)
       ELSE /\ Advance
            /\ UNCHANGED <<printed, exitState, conn, deferred>>
    /\ UNCHANGED <<inv, dials, calls, gstate, connTimeout, frames, answers, scopes>>
    /\ UNCHANGED <<respVars, launchVars, callVars>>

\* list: os.Open(loc.File) and the scan of its lines
ListReadSource ==
    /\ At("readSource")
    /\ \E res \in {"ok", "openFails", "scanFails"} :
        IF res = "openFails"
        THEN Finish(ErrorWithInfo("list",
                <<NotFound("source file", gstate[1].SelectedGoroutine[1].File)>>),
                conn, deferred)
        ELSE IF res = "scanFails"
        THEN Finish(Error("list", RawError(<<"bufio.Scanner:", "token", "too", "long">>)),
                conn, deferred)
        ELSE /\ Advance
             /\ UNCHANGED <<printed, exitState, conn, deferred>>
    /\ UNCHANGED <<inv, dials, calls, gstate, connTimeout, frames, answers, scopes>>
    /\ UNCHANGED <<respVars, launchVars, callVars>>

\* stateToData, and the data map the status handler builds the same way
stateToData(state) ==
    IF state.Exited
    THEN [running |-> state.Running, exited |-> state.Exited,
          exitStatus |-> state.ExitStatus]
    ELSE [running |-> state.Running, exited |-> state.Exited,
          goroutine |-> state.SelectedGoroutine]

\* the data of a successful Response
HandlerData(cmd, st) ==
    IF cmd \in {"status"} \cup ResumeCommands THEN stateToData(st[1])
    ELSE IF cmd = "quit" THEN Nil
    ELSE <<cmd>>

\* output.Success(...) at the end of a handler
HandlerSuccess ==
    /\ At("Success")
    /\ Finish(Success(inv.cmd, HandlerData(inv.cmd, gstate),
                      SuccessMessage(inv.cmd, gstate)),
              conn, deferred)
    /\ UNCHANGED <<inv, dials, calls, gstate, connTimeout>>
    /\ UNCHANGED <<frames, answers, scopes>>
    /\ UNCHANGED <<respVars, launchVars, callVars>>

\* A further invocation against the same session: after `frame <i>` has
\* succeeded, the user runs locals, args or eval with the same --addr.  The
\* new process starts from nothing; `after` remembers the frame the
\* previous invocation reported as selected.
FrameSucceeded ==
    /\ ipc.at = "end"
    /\ inv.cmd = "frame"
    /\ printed # <<>>
    /\ printed[Len(printed)].Success

NextInvocation ==
    /\ FrameSucceeded
    /\ inv.after = <<>>
    /\ \E c \in {"locals", "args", "eval"} : \E st \in HandlerStyles(inv.entry, c) :
        inv' = [inv EXCEPT !.cmd = c, !.style = st,
                           !.args = IF c = "eval" THEN <<"7">> ELSE <<>>,
                           !.after = <<Atoi(inv.args[1])[1]>>]
    /\ ipc' = [at |-> "start", i |-> 0]
    /\ conn' = "none"
    /\ deferred' = FALSE
    /\ dials' = 0
    /\ calls' = <<>>
    /\ printed' = <<>>
    /\ exitState' = [how |-> "none", code |-> 0]
    /\ gstate' = <<>>
    /\ connTimeout' = 0
    /\ frames' = <<>>
    /\ answers' = <<>>
    /\ scopes' = <<>>
    /\ UNCHANGED <<respVars, launchVars, callVars>>

Next ==
    \/ NextInvocation
    \/ RemoteCallIgnored
    \/ CobraExecute
    \/ MustGetClient
    \/ ConnectCommandDial
    \/ ParseArg
    \/ HandlerSetTimeout
    \/ RemoteCall
    \/ ResumeCall
    \/ NeedGoroutine
    \/ FrameIndex
    \/ ListLocation
    \/ ListReadSource
    \/ HandlerSuccess

Spec == Init /\ [][Next]_vars

\* every step of an invocation that can be taken is eventually taken
SpecFair == Init /\ [][Next]_vars /\ WF_vars(Next)

(***************************************************************************)
(* Properties of an invocation                                             *)
(***************************************************************************)
LastPrinted == printed[Len(printed)]

\* the dial of the invocation failed
DialFailed == dials > 0 /\ conn = "none"

\* C1: for every handler reachable from Execute(), the exit status of the
\* process equals ExitCode() of the Response it printed; a failure Response is
\* never followed by exit status 0.
C1_ExitStatusIsExitCode ==
    (inv.entry = "Execute" /\ ipc.at = "end" /\ Len(printed) > 0) =>
        exitState.code = ExitCode(LastPrinted)

\* C4: every invocation, whatever its command line, prints exactly one
\* Response before it ends.
C4_ExactlyOneResponse ==
    ipc.at = "end" => Len(printed) = 1

\* C9: after a dial failure the invocation prints a ConnectionRefused or a
\* ConnectionFailed Error Info, has made no remote call and exits with
\* status 3.
C9_DialFailureExits3 ==
    (ipc.at = "end" /\ DialFailed) =>
        /\ Len(printed) = 1
        /\ ~LastPrinted.Success
        /\ LastPrinted.Error # Nil
        /\ LastPrinted.Error[1].Code \in {ErrCodeConnectionRefused, ErrCodeConnectionFailed}
        /\ calls = <<>>
        /\ exitState.code = ExitConnectionError

\* C10: `break <file>:abc` ends with a failure Response carrying
\* InvalidArgument and exit status 2, without having dialled or called the
\* server, whether or not the endpoint is reachable.
C10_BadLineNoDial ==
    (/\ ipc.at = "end"
     /\ inv.cmd = "break"
     /\ inv.args = <<"main.go:abc">>
     /\ ParseDuration(inv.timeout) # Nil) =>
        /\ Len(printed) = 1
        /\ ~LastPrinted.Success
        /\ LastPrinted.Error # Nil
        /\ LastPrinted.Error[1].Code = ErrCodeInvalidArgument
        /\ exitState.code = ExitUsageError
        /\ dials = 0
        /\ calls = <<>>

InspectionCommands == {"locals", "args", "eval", "stack", "frame", "list"}

\* the handler fetched a state that has no selected goroutine
NoneSelected == gstate # <<>> /\ gstate[1].SelectedGoroutine = Nil

\* C11: an inspection command that finds no selected goroutine ends with a
\* failure Response carrying NotFound and exit status 4, and has issued no
\* remote call other than the one fetching the state.
C11_NoGoroutineIsNotFound ==
    (ipc.at = "end" /\ inv.cmd \in InspectionCommands /\ NoneSelected) =>
        /\ Len(printed) = 1
        /\ ~LastPrinted.Success
        /\ LastPrinted.Error # Nil
        /\ LastPrinted.Error[1].Code = ErrCodeNotFound
        /\ exitState.code = ExitNotFound
        /\ calls = <<"State">>

\* wordings by which a server says that it has no breakpoint of the id
NoSuchIdWordings ==
    { <<"breakpoint", "not", "found">>, <<"no", "breakpoint", "with", "id", "7">> }

\* the server answered the removal with one of these wordings
UnknownBreakpoint ==
    /\ inv.cmd = "clear"
    /\ calls = <<"ClearBreakpoint">>
    /\ answers # <<>>
    /\ ~answers[1].ok
    /\ answers[1].err.text \in NoSuchIdWordings

\* C12: clearing a breakpoint id the server does not know ends with a
\* failure Response carrying NotFound, details holding the requested id, and
\* exit status 4, whatever the wording of the server's answer.
C12_UnknownBreakpointIsNotFound ==
    (ipc.at = "end" /\ UnknownBreakpoint) =>
        /\ Len(printed) = 1
        /\ ~LastPrinted.Success
        /\ LastPrinted.Error # Nil
        /\ LastPrinted.Error[1].Code = ErrCodeNotFound
        /\ LastPrinted.Error[1].Details =
              <<"resource_type", "breakpoint", "identifier", ToString(Atoi(inv.args[1])[1])>>
        /\ exitState.code = ExitNotFound

\* the server's error for a command sent to a target that has ended
ProcessExitedText == <<"Process", "1", "has", "exited", "with", "status", "2">>

\* a status or resume-class operation found the target terminated: the
\* state it received says so, or the server answered with ProcessExitedText
TargetTerminated ==
    /\ inv.cmd \in {"status"} \cup ResumeCommands
    /\ Len(calls) = 1
    /\ answers # <<>>
    /\ IF answers[1].ok THEN answers[1].state.Exited
       ELSE answers[1].err.text = ProcessExitedText

\* C13: when a status, continue, next, step or stepout operation finds the
\* target terminated, the invocation prints a success Response whose data
\* holds exited = true and the numeric exit status, and ends with status 0.
C13_TerminationIsData ==
    (ipc.at = "end" /\ TargetTerminated) =>
        /\ Len(printed) = 1
        /\ LastPrinted.Success
        /\ LastPrinted.Data.exited
        /\ LastPrinted.Data.exitStatus = 2
        /\ exitState.code = ExitSuccess

\* C15: a command that needs a session (every command but connect; start is
\* not part of this specification) whose handler runs with an empty --addr
\* prints one failure Response with code INVALID_ARGUMENT and exits with
\* status 2; no dial is attempted and no remote call is made.
NeedsSession == inv.cmd \in Commands \ {"connect"}

HandlerReached ==
    /\ inv.cmd \in Commands
    /\ ParseDuration(inv.timeout) # Nil
    /\ ValidateArgs(inv.cmd, inv.args)

C16_NoRuntimePanic ==
    /\ exitState.how # "panic"
    /\ ipc.at = "end" => exitState.how \in {"return", "exit"}

\* C18: once `frame <i>` has succeeded, the scoped remote call of the next
\* locals, args or eval invocation against the same session names frame i.
C18_FrameSelectionScopesInspection ==
    (inv.after # <<>> /\ inv.cmd \in {"locals", "args", "eval"}) =>
        \A k \in 1..Len(scopes) : scopes[k] = inv.after[1]

\* C21: within one invocation nothing is retried: at most one dial is made,
\* a remote call that failed is the last remote call of the invocation, and
\* an invocation in which the dial or a remote call failed ends having
\* printed exactly one Response, a failure.
CallFailed == \E k \in 1..Len(answers) : ~answers[k].ok

C21_NoRetryFailureSurfacedOnce ==
    /\ dials <= 1
    /\ DialFailed => calls = <<>>
    /\ \A k \in 1..Len(answers) :
            ~answers[k].ok => (k = Len(answers) /\ Len(calls) = k)
    /\ (ipc.at = "end" /\ (CallFailed \/ DialFailed)) =>
            (Len(printed) = 1 /\ ~LastPrinted.Success)

\* C29: the state-read operations are bounded by the default deadline of
\* the client: a status or goroutines invocation whose server accepted the
\* connection but never answers still ends, with a Timeout failure.
StateReadCommands == {"status", "goroutines"}

C29_StateReadsBounded ==
    [](inv.cmd \in StateReadCommands =>
        /\ <>(ipc.at = "end")
        /\ (ipc.at = "blocked" =>
                <>(/\ ipc.at = "end"
                   /\ printed # <<>>
                   /\ LastPrinted.Error # Nil
                   /\ LastPrinted.Error[1].Code = ErrCodeTimeout)))

\* C30: every error a Client operation returns to its caller is an Error
\* Info carrying a code of the taxonomy; the raw error of the transport is
\* never returned.
ReturnedError(k) ==
    MethodError(calls[k], answers[k], IF Len(inv.args) > 0 THEN inv.args[1] ELSE "")

C30_NoRawTransportError ==
    \A k \in 1..Len(answers) :
        ~answers[k].ok =>
            /\ ReturnedError(k).kind = "info"
            /\ ReturnedError(k).ptr # Nil
            /\ ReturnedError(k).ptr[1].Code \in ErrCodes

\* C31: on every path of an invocation other than quit on which the
\* connection was opened, the connection is closed when the process ends,
\* whether the handler returned or ended in PrintAndExit.
C31_ConnectionClosedAtExit ==
    (ipc.at = "end" /\ inv.cmd # "quit" /\ dials > 0 /\ ~DialFailed) =>
        conn = "closed"

\* C33: within one invocation the remote calls are strictly sequential:
\* there are never two calls of the invocation in flight, and once a
\* timeout-bounded call has been abandoned the invocation issues no further
\* call on that connection.
InFlight == Len(calls) - Len(answers)

Abandoned == InFlight > 0 /\ ipc.at # "blocked"

C33_CallsAreSequential ==
    [][ /\ InFlight' <= 1
        /\ Abandoned => calls' = calls ]_vars

C33_Witness ==
    /\ Abandoned
    /\ ipc.at = "end"
    /\ printed # <<>>
    /\ LastPrinted.Error # Nil
    /\ LastPrinted.Error[1].Code = ErrCodeTimeout

\* C34: for every Launch Configuration the argument list handed to the
\* debugger is the mode keyword, the target when it is non-empty, the
\* headless, api-version, accept-multiclient and listen flags, and then "--"
\* followed by the program arguments exactly when there is at least one
\* program argument; the listen address is always 127.0.0.1 with port 0.
ExecArgs == { e[2] : e \in { events[i] : i \in { j \in 1..Len(events) : events[j][1] = "exec" } } }

HeadlessFlags ==
    <<"--headless", "--api-version=2", "--accept-multiclient", "--listen=127.0.0.1:0">>

C34_ArgumentListShape ==
    \A a \in ExecArgs :
        LET k == IF config.Target # "" THEN 2 ELSE 1 IN
        /\ a[1] = config.Mode
        /\ config.Target # "" => a[2] = config.Target
        /\ Len(a) >= k + 4
        /\ SubSeq(a, k + 1, k + 4) = HeadlessFlags
        /\ IF Len(config.Args) > 0
           THEN SubSeq(a, k + 5, Len(a)) = <<"--">> \o config.Args
           ELSE Len(a) = k + 4

C34_Witness ==
    /\ ExecArgs # {}
    /\ lpc = "done"
    /\ lresult.kind = "ok"

\* C35: for every integer i and every stack of n frames, `frame i`
\* succeeds only when 0 <= i < n; for every other i, negative i included,
\* it reports success = false with the NotFound code and exit code 4.
\* (the handlers of frame that end in PrintAndExit, once Stacktrace answered)
StackRead ==
    /\ inv.cmd = "frame"
    /\ inv.style = "exit"
    /\ ipc.at = "end"
    /\ calls # <<>>
    /\ calls[Len(calls)] = "Stacktrace"
    /\ Len(answers) = Len(calls)
    /\ answers[Len(answers)].ok

C35_FrameIndexOutOfRangeIsNotFound ==
    StackRead =>
        LET i == Atoi(inv.args[1])[1]
            n == Len(frames)
        IN  ~(0 <= i /\ i < n) =>
                /\ printed # <<>>
                /\ ~LastPrinted.Success
                /\ LastPrinted.Error[1].Code = ErrCodeNotFound
                /\ exitState.code = ExitNotFound

\* C36: on a single stream the first line matching either pattern decides
\* what the scanner sends and ends it: a line holding both the listening
\* pattern and "error" is sent as an address, and an error line preceding the
\* listening line on the same stream makes the scanner send a startup
\* failure and never the address.
Matches(line) == FindStringSubmatch(line) # <<>> \/ IsErrorLine(line)

\* the kinds of value the scanner of stream s has sent (kept or discarded by
\* the non-blocking send)
SentKinds(s) ==
    { k \in {"addr", "err"} :
        \E i \in 1..Len(events) : events[i] \in { <<"pub", k, s>>, <<"drop", k, s>> } }

C36_FirstMatchingLineDecides ==
    \A s \in Streams :
        /\ \A i \in 1..(scPos[s] - 1) : ~Matches(lines[s][i])
        /\ (scPos[s] > 0 /\ Matches(StopLine(s))) =>
              /\ scState[s] = "done"
              /\ SentKinds(s) =
                    { IF FindStringSubmatch(StopLine(s)) # <<>> THEN "addr" ELSE "err" }
        /\ (scPos[s] = 0 \/ ~Matches(StopLine(s))) => SentKinds(s) = {}

C36_Witness ==
    \E s, t \in Streams :
        /\ s # t
        /\ scPos[s] = 1
        /\ FindStringSubmatch(StopLine(s)) # <<>> /\ IsErrorLine(StopLine(s))
        /\ SentKinds(s) = {"addr"}
        /\ Len(lines[t]) = 2 /\ scPos[t] = 1
        /\ IsErrorLine(lines[t][1]) /\ FindStringSubmatch(lines[t][1]) = <<>>
        /\ FindStringSubmatch(lines[t][2]) # <<>>
        /\ SentKinds(t) = {"err"}

\* C37: the task running an abandoned remote call can always hand over its
\* result and finish: after callWithTimeout has returned Timeout, the
\* completion of the remote call never leaves the task blocked in its send.
AbandonedCall == cpc = "returned" /\ IsTimeoutOf(cresult, cTimeout)

C37_AbandonedTaskCanFinish ==
    (AbandonedCall /\ task = "sending") => ENABLED TaskSend

C37_Witness ==
    /\ AbandonedCall
    /\ task = "exited"
    /\ doneChan # <<>>
    /\ Happened("send") /\ IndexOf("return") < IndexOf("answer")

\* C38: every failure of the Eval remote call is reported as EvalFailed
\* (exit code 1) with the expression in its details, whatever the text of
\* the underlying error, a text FromError would classify otherwise included.
EvalCallFailed ==
    /\ inv.cmd = "eval"
    /\ ipc.at = "end"
    /\ calls # <<>>
    /\ calls[Len(calls)] = "Eval"
    /\ Len(answers) = Len(calls)
    /\ ~answers[Len(answers)].ok

ReportedAsEvalFailed ==
    /\ printed # <<>>
    /\ ~LastPrinted.Success
    /\ LastPrinted.Error # Nil
    /\ LastPrinted.Error[1].Code = ErrCodeEvalFailed
    /\ LastPrinted.Error[1].Details = <<"expression", inv.args[1]>>

C38_EvalFailureIsEvalFailed ==
    EvalCallFailed =>
        /\ ReportedAsEvalFailed
        /\ exitState.code = ExitGenericError

\* C39: FromError is the identity on Error Info values and idempotent:
\* FromError(e) is e when e is already an Error Info, so a code assigned by
\* the Client survives output.Error unchanged, and
\* FromError(FromError(x)) = FromError(x) for every error x.
C39_FromErrorIdentityAndIdempotent ==
    /\ \A p \in SampleInfos :
          /\ FromError(InfoError(p)) = p
          /\ \A c \in CommandNames : Error(c, InfoError(p)).Error = p
    /\ \A x \in SampleErrors :
          FromError(InfoError(FromError(x))) = FromError(x)
    /\ (built # <<>> /\ builtBy = "Error") =>
          /\ FromError(InfoError(built[1].Error)) = built[1].Error
          /\ Error(built[1].Command, InfoError(built[1].Error)) = built[1]

C39_Witness ==
    /\ built # <<>>
    /\ builtBy = "Error"
    /\ built[1].Error # Nil
    /\ built[1].Error[1].Code = "SOMETHING_ELSE"
    /\ built[1].Error[1].Details = <<"k", "v">>

====
